---------------------------- MODULE Spec2Model ----------------------------
(***************************************************************************)
(* Secure-session establishment (PaseClient.pair, CaseServer) and the      *)
(* subscription receiver / subscribe operations of the Interaction client  *)
(* of matter.js, as state machines.                                        *)
(*                                                                         *)
(* Every async function is cut at its awaits: one action is the resolution *)
(* of one awaited call (successfully or with a rejection) followed by the  *)
(* synchronous code up to the next await.  Cryptography is symbolic: a key *)
(* derivation, a MIC or a signature is the record of its inputs, so two    *)
(* of them are equal exactly when they were computed from the same inputs. *)
(***************************************************************************)
EXTENDS Integers, Sequences, FiniteSets, TLC

\* JavaScript's undefined, for optional fields and absent map entries.
Undefined == [undefined |-> TRUE]

(***************************************************************************)
(* Bounds of the model.                                                    *)
(***************************************************************************)
\* Number of PaseClient.pair calls in a run.
MaxPairs == 3
\* Number of exchanges handed to CaseServer.onNewExchange in a run.
MaxExchanges == 3

VARIABLES
    \* ---- PaseClient.pair ----
    pasePc,              \* the await pair() is suspended at, or idle/done/failed
    paseMessenger,       \* PaseClientMessenger: "none" | "open" | "closed"
    paseLog,             \* completed messenger operations of this pair call, in order
    paseSessionId,       \* sessionId of this pair call (getNextAvailableSessionId)
    paseSetupPin,        \* setupPin argument
    pasePbkdfParameters, \* pbkdfParameters of the response (or Undefined)
    paseVerifier,        \* verifier of the received Pake2
    paseY,               \* y of the received Pake2
    paseSessions,        \* sessions created by client.createSecureSession
    paseResult,          \* what pair() settled with: "pending" | "session" | error text
    \* ---- CaseServer ----
    casePc,               \* the await onNewExchange/handleSigma1 is suspended at
    caseMessenger,        \* CaseServerMessenger: "none" | "open" | "closed"
    caseLog,              \* completed steps of this handshake, in order
    caseSent,             \* messages this handshake handed to the exchange, in order
    caseSessionId,        \* sessionId of this handshake (getNextAvailableSessionId)
    caseSigma1,           \* the decoded Sigma1
    caseResumptionId,     \* resumptionId = crypto.getRandomData(16)
    caseResumptionRecord, \* the local resumptionRecord: a reference into caseRecords
    caseSharedSecret,     \* sharedSecret (of the record, or of the ECDH exchange)
    caseSigma3,           \* the decoded Sigma3
    caseSessions,         \* sessions created by server.createSecureSession
    caseRecords,          \* the resumption record objects the server holds
    caseSaved,            \* arguments of the saveResumptionRecord calls, in order
    caseError,            \* the error handleSigma1 raised, or Undefined
    \* ---- InteractionClient and its SubscriptionClient ----
    subscriptionListeners, \* Map subscriptionId -> listener
    subscribedLocalValues, \* Map attributePathToId(path) -> {value, version}
    acceptedValues,        \* per path, the {value, version} a user listener was last called with
    recvPc,                \* the await SubscriptionClient.onNewExchange is suspended at
    recvMessenger,         \* IncomingInteractionClientMessenger: "none" | "open" | "closed"
    recvDataReport,        \* the DataReport read (or Undefined)
    recvListener,          \* the local listener (or Undefined)
    recvSent,              \* statuses this exchange sent, in order
    recvInvoked,           \* listener invocations of this onNewExchange call, in order
    recvResult,            \* "pending" | "returned" | the error raised
    recvSubscribed,        \* ids whose SubscribeResponse the peer had sent when it opened this exchange
    subPc,                 \* the await subscribe/subscribeMultipleAttributes is suspended at
    subMessenger,          \* its InteractionClientMessenger: "none" | "open" | "closed"
    subListener,           \* the subscription listener the call builds
    subResponse,           \* the subscriptionId of the SubscribeResponse in flight (or Undefined)
    subResult,             \* "pending" | "returned" | the error raised
    subReplaced,           \* the listener the call found registered under its subscriptionId (or Undefined)
    \* ---- InteractionClient: get, getMultipleAttributes, set, setMultipleAttributes, invoke ----
    opPc,                  \* the await the operation is suspended at, or idle/done
    opKind,                \* the public operation that was called
    opArgs,                \* its arguments
    opMessenger,           \* its InteractionClientMessenger: "none" | "open" | "closed"
    opSent,                \* messages the operation sent, in order
    opResponse,            \* processReadRequest: response, the DataReport being processed
    opChunks,              \* processReadRequest: the DataReports received, in order
    opResult,              \* processReadRequest: result, the accumulated report entries
    opReturn,              \* what the operation settled with (or Undefined)
    \* ---- the peer ----
    peerMaxChunks          \* the number of DataReports the peer splits a read answer into, at most

paseVars == <<pasePc, paseMessenger, paseLog, paseSessionId, paseSetupPin,
              pasePbkdfParameters, paseVerifier, paseY, paseSessions, paseResult>>
caseVars == <<casePc, caseMessenger, caseLog, caseSent, caseSessionId, caseSigma1,
              caseResumptionId, caseResumptionRecord, caseSharedSecret, caseSigma3,
              caseSessions, caseRecords, caseSaved, caseError>>
icVars == <<subscriptionListeners, subscribedLocalValues, acceptedValues, recvPc,
            recvMessenger, recvDataReport, recvListener, recvSent, recvInvoked,
            recvResult, recvSubscribed, subPc, subMessenger, subListener, subResponse,
            subResult, subReplaced>>
opVars == <<opPc, opKind, opArgs, opMessenger, opSent, opResponse, opChunks, opResult,
            opReturn>>
vars == <<paseVars, caseVars, icVars, opVars, peerMaxChunks>>
notPaseVars == <<caseVars, icVars, opVars, peerMaxChunks>>
notCaseVars == <<paseVars, icVars, opVars, peerMaxChunks>>
notIcVars == <<paseVars, caseVars, opVars, peerMaxChunks>>
notOpVars == <<paseVars, caseVars, icVars, peerMaxChunks>>

(***************************************************************************)
(* PASE client: PaseClient.pair                                            *)
(***************************************************************************)
\* The passcode the commissionable device was provisioned with, and a wrong one.
DevicePin == "20202021"
SetupPins == {DevicePin, "11111111"}
\* pbkdfParameters a PbkdfParamResponse may carry.
PbkdfParams == {[iterations |-> 1000, salt |-> "0001020304050607"]}
UNDEFINED_NODE_ID == [nodeId |-> "UNDEFINED_NODE_ID"]

\* Spake2p.computeW0W1(pbkdfParameters, setupPin)
computeW0W1(params, pin) ==
    [w0 |-> [w |-> "w0", params |-> params, pin |-> pin],
     w1 |-> [w |-> "w1", params |-> params, pin |-> pin]]

\* spake2p.computeSecretAndVerifiersFromY(w1, X, Y) of a Spake2p created with
\* (context, w0): both verifiers and Ke are functions of the whole transcript.
computeSecretAndVerifiersFromY(context, w0, w1, X, Y) ==
    LET TT == [context |-> context, w0 |-> w0, w1 |-> w1, X |-> X, Y |-> Y]
    IN  [Ke  |-> [k |-> "Ke",  TT |-> TT],
         hAY |-> [k |-> "hAY", TT |-> TT],
         hBX |-> [k |-> "hBX", TT |-> TT]]

\* crypto.hash([SPAKE_CONTEXT, requestPayload, responsePayload]) of pair call n
PaseContext(n, params) == [request |-> n, response |-> params]
\* spake2p.computeX() of pair call n
PaseX(n) == [X |-> n]
PeerYs == {[Y |-> 1]}

\* The secrets and verifiers pair call n derives (lines 32-34 and 39).
PaseSecretsOf(n, pin, params, Y) ==
    LET w == computeW0W1(params, pin)
    IN  computeSecretAndVerifiersFromY(PaseContext(n, params), w.w0, w.w1, PaseX(n), Y)

\* Those of the current pair call.
PaseSecrets == PaseSecretsOf(paseSessionId, paseSetupPin, pasePbkdfParameters, paseY)

\* The verifiers a peer can put into Pake2 for pair call n: the one the device
\* derives from its own passcode, and one that differs from it.
PeerVerifiers(n, params, Y) ==
    LET w == computeW0W1(params, DevicePin)
    IN  { computeSecretAndVerifiersFromY(PaseContext(n, params), w.w0, w.w1, PaseX(n), Y).hBX,
          [k |-> "hBX", TT |-> [corrupted |-> TRUE]] }

PaseInit ==
    /\ pasePc = "idle"
    /\ paseMessenger = "none"
    /\ paseLog = <<>>
    /\ paseSessionId = 0
    /\ paseSetupPin = DevicePin
    /\ pasePbkdfParameters = Undefined
    /\ paseVerifier = Undefined
    /\ paseY = Undefined
    /\ paseSessions = {}
    /\ paseResult = "pending"

\* A throw inside pair(): the promise rejects with the error. pair() has no
\* try/finally, so nothing else runs (the messenger is left as it is).
PaseThrow(error) ==
    /\ pasePc' = "failed"
    /\ paseResult' = error
    /\ UNCHANGED <<paseMessenger, paseSessions>>

\* pair(client, exchange, setupPin) up to the first await: new messenger,
\* getNextAvailableSessionId, call of sendPbkdfParamRequest.
PasePair ==
    /\ UNCHANGED notPaseVars
    /\ pasePc \in {"idle", "done", "failed"}
    /\ paseSessionId < MaxPairs
    /\ \E pin \in SetupPins : paseSetupPin' = pin
    /\ paseSessionId' = paseSessionId + 1
    /\ paseMessenger' = "open"
    /\ paseLog' = <<>>
    /\ pasePbkdfParameters' = Undefined
    /\ paseVerifier' = Undefined
    /\ paseY' = Undefined
    /\ paseResult' = "pending"
    /\ pasePc' = "sendPbkdfParamRequest"
    /\ UNCHANGED paseSessions

\* await messenger.sendPbkdfParamRequest(...) settles.
PaseSendPbkdfParamRequest ==
    /\ UNCHANGED notPaseVars
    /\ pasePc = "sendPbkdfParamRequest"
    /\ \/ /\ paseLog' = Append(paseLog, "sendPbkdfParamRequest")
          /\ pasePc' = "readPbkdfParamResponse"
          /\ UNCHANGED <<paseMessenger, paseSessions, paseResult>>
       \/ /\ PaseThrow("TransportError")
          /\ UNCHANGED paseLog
    /\ UNCHANGED <<paseSessionId, paseSetupPin, pasePbkdfParameters, paseVerifier, paseY>>

\* await messenger.readPbkdfParamResponse() settles; the pbkdfParameters check;
\* computeW0W1, Spake2p.create, computeX, call of sendPasePake1.
PaseReadPbkdfParamResponse ==
    /\ UNCHANGED notPaseVars
    /\ pasePc = "readPbkdfParamResponse"
    /\ \/ \E params \in PbkdfParams \cup {Undefined} :
            /\ paseLog' = Append(paseLog, "readPbkdfParamResponse")
            /\ pasePbkdfParameters' = params
            /\ IF params = Undefined
                 THEN PaseThrow("Missing requested PbkdfParameters in the response")
                 ELSE /\ pasePc' = "sendPasePake1"
                      /\ UNCHANGED <<paseMessenger, paseSessions, paseResult>>
       \/ /\ PaseThrow("ReadError")
          /\ UNCHANGED <<paseLog, pasePbkdfParameters>>
    /\ UNCHANGED <<paseSessionId, paseSetupPin, paseVerifier, paseY>>

\* await messenger.sendPasePake1({ x: X }) settles; call of readPasePake2.
PaseSendPasePake1 ==
    /\ UNCHANGED notPaseVars
    /\ pasePc = "sendPasePake1"
    /\ \/ /\ paseLog' = Append(paseLog, "sendPasePake1")
          /\ pasePc' = "readPasePake2"
          /\ UNCHANGED <<paseMessenger, paseSessions, paseResult>>
       \/ /\ PaseThrow("TransportError")
          /\ UNCHANGED paseLog
    /\ UNCHANGED <<paseSessionId, paseSetupPin, pasePbkdfParameters, paseVerifier, paseY>>

\* The same step without the key confirmation check of line 40.
PaseReadPasePake2_Unchecked ==
    /\ UNCHANGED notPaseVars
    /\ pasePc = "readPasePake2"
    /\ \E Y \in PeerYs :
        \E verifier \in PeerVerifiers(paseSessionId, pasePbkdfParameters, Y) :
            /\ paseLog' = Append(paseLog, "readPasePake2")
            /\ paseY' = Y
            /\ paseVerifier' = verifier
            /\ pasePc' = "sendPasePake3"
            /\ UNCHANGED <<paseMessenger, paseSessions, paseResult>>
    /\ UNCHANGED <<paseSessionId, paseSetupPin, pasePbkdfParameters>>

\* await messenger.readPasePake2() settles; computeSecretAndVerifiersFromY;
\* the key confirmation check; call of sendPasePake3.
PaseReadPasePake2 ==
    /\ UNCHANGED notPaseVars
    /\ pasePc = "readPasePake2"
    /\ \/ \E Y \in PeerYs :
            \E verifier \in PeerVerifiers(paseSessionId, pasePbkdfParameters, Y) :
                /\ paseLog' = Append(paseLog, "readPasePake2")
                /\ paseY' = Y
                /\ paseVerifier' = verifier
                /\ IF verifier # PaseSecretsOf(paseSessionId, paseSetupPin, pasePbkdfParameters, Y).hBX
                     THEN PaseThrow("Received incorrect key confirmation from the receiver")
                     ELSE /\ pasePc' = "sendPasePake3"
                          /\ UNCHANGED <<paseMessenger, paseSessions, paseResult>>
       \/ /\ PaseThrow("ReadError")
          /\ UNCHANGED <<paseLog, paseY, paseVerifier>>
    /\ UNCHANGED <<paseSessionId, paseSetupPin, pasePbkdfParameters>>

\* await messenger.sendPasePake3({ verifier: hAY }) settles; call of waitForSuccess.
PaseSendPasePake3 ==
    /\ UNCHANGED notPaseVars
    /\ pasePc = "sendPasePake3"
    /\ \/ /\ paseLog' = Append(paseLog, "sendPasePake3")
          /\ pasePc' = "waitForSuccess"
          /\ UNCHANGED <<paseMessenger, paseSessions, paseResult>>
       \/ /\ PaseThrow("TransportError")
          /\ UNCHANGED paseLog
    /\ UNCHANGED <<paseSessionId, paseSetupPin, pasePbkdfParameters, paseVerifier, paseY>>

\* await messenger.waitForSuccess() settles; call of client.createSecureSession.
PaseWaitForSuccess ==
    /\ UNCHANGED notPaseVars
    /\ pasePc = "waitForSuccess"
    /\ \/ /\ paseLog' = Append(paseLog, "waitForSuccess")
          /\ pasePc' = "createSecureSession"
          /\ UNCHANGED <<paseMessenger, paseSessions, paseResult>>
       \/ /\ PaseThrow("StatusResponseError")
          /\ UNCHANGED paseLog
    /\ UNCHANGED <<paseSessionId, paseSetupPin, pasePbkdfParameters, paseVerifier, paseY>>

\* The SecureSession pair() asks for.
PaseSecureSession ==
    [sessionId     |-> paseSessionId,
     fabric        |-> Undefined,
     peerNodeId    |-> UNDEFINED_NODE_ID,
     sharedSecret  |-> PaseSecrets.Ke,
     salt          |-> <<>>,
     isInitiator   |-> TRUE,
     isResumption  |-> FALSE]

\* await client.createSecureSession(...) settles; messenger.close(); return.
PaseCreateSecureSession ==
    /\ UNCHANGED notPaseVars
    /\ pasePc = "createSecureSession"
    /\ paseSessions' = paseSessions \cup {PaseSecureSession}
    /\ paseLog' = Append(paseLog, "createSecureSession")
    /\ paseMessenger' = "closed"
    /\ paseResult' = "session"
    /\ pasePc' = "done"
    /\ UNCHANGED <<paseSessionId, paseSetupPin, pasePbkdfParameters, paseVerifier, paseY>>

PaseNext ==
    \/ PasePair
    \/ PaseSendPbkdfParamRequest
    \/ PaseReadPbkdfParamResponse
    \/ PaseSendPasePake1
    \/ PaseReadPasePake2
    \/ PaseSendPasePake3
    \/ PaseWaitForSuccess
    \/ PaseCreateSecureSession


(***************************************************************************)
(* CASE server: CaseServer.onNewExchange / handleSigma1                    *)
(***************************************************************************)
\* The fabrics the device is commissioned into, and one it is not.
ServerFabric == [fabricId |-> "F1"]
OtherFabric == [fabricId |-> "F2"]
\* The peer's random and ephemeral public key of Sigma1.
PeerRandom == [random |-> "A"]
PeerEcdhPublicKey == [peerPub |-> "peer"]
\* A secret no record of the server holds.
WrongSecret == [local |-> 0, peer |-> PeerEcdhPublicKey]

KDFSR1_KEY_INFO == [info |-> "Sigma1_Resume"]
KDFSR2_KEY_INFO == [info |-> "Sigma2_Resume"]
KDFSR3_INFO == [info |-> "Sigma3"]
RESUME1_MIC_NONCE == [nonce |-> "NCASE_SigmaS1"]
TBE_DATA3_NONCE == [nonce |-> "NCASE_Sigma3N"]

\* crypto.hkdf(secret, salt, info)
hkdf(secret, salt, info) == [ikm |-> secret, salt |-> salt, info |-> info]
\* crypto.encrypt(key, data, nonce)
encrypt(key, data, nonce) == [key |-> key, data |-> data, nonce |-> nonce]
\* crypto.decrypt(key, data, nonce) returns the plaintext, and throws unless the
\* data was encrypted (and authenticated) under the same key and nonce.
CanDecrypt(key, data, nonce) ==
    data # Undefined /\ data.key = key /\ data.nonce = nonce
decrypt(key, data, nonce) == data.data

\* crypto.ecdhGeneratePublicKeyAndSecret(peerEcdhPublicKey) in handshake n
ecdhGeneratePublicKeyAndSecret(n, peerKey) ==
    [publicKey |-> [pub |-> n], sharedSecret |-> [local |-> n, peer |-> peerKey]]

\* TlvSignedData.encode({nodeOpCert, intermediateCACert, ecdhPublicKey, peerEcdhPublicKey})
TlvSignedData(cert, ecdhPublicKey, peerEcdhPublicKey) ==
    [nodeOpCert |-> cert, ecdhPublicKey |-> ecdhPublicKey,
     peerEcdhPublicKey |-> peerEcdhPublicKey]
\* A signature by the holder of key over data; crypto.verifySpki(key, data, sig)
\* throws unless it is one.
Sign(key, data) == [signer |-> key, data |-> data]
VerifiesSpki(key, data, signature) == signature = Sign(key, data)

\* Operational certificates a peer may present: one of the server's fabric and
\* one of another fabric. fabric.verifyCredentials throws on the second.
PeerCerts == {[fabric |-> ServerFabric, nodeId |-> "N1", publicKey |-> [spki |-> "N1"]],
              [fabric |-> OtherFabric, nodeId |-> "N2", publicKey |-> [spki |-> "N2"]]}
VerifiesCredentials(fabric, cert) == cert.fabric = fabric

\* server.findResumptionRecordById(id): the record object holding that id.
findResumptionRecordById(id) ==
    IF \E i \in DOMAIN caseRecords : caseRecords[i].resumptionId = id
      THEN [ref |-> CHOOSE i \in DOMAIN caseRecords : caseRecords[i].resumptionId = id]
      ELSE Undefined

\* server.findFabricFromDestinationId(destinationId, peerRandom): the fabric the
\* destination id was derived for; Undefined stands for its throw.
findFabricFromDestinationId(destinationId, peerRandom) ==
    IF destinationId.fabric = ServerFabric /\ destinationId.random = peerRandom
      THEN ServerFabric
      ELSE Undefined

\* The key the peer's resumeMic must decrypt under (line 105).
PeerResumeKey(sharedSecret, sigma1) ==
    hkdf(sharedSecret, <<sigma1.random, sigma1.resumptionId>>, KDFSR1_KEY_INFO)

\* The Sigma1 messages a peer can send to handshake n: with or without a
\* resumption id (one the server issued earlier, or never), with or without a
\* resumeMic (computed from a secret the server holds in a record, or another).
Sigma1s(n) ==
    LET rids == {Undefined} \cup {[rid |-> k] : k \in 0..(n - 1)}
        secrets == {caseRecords[i].sharedSecret : i \in DOMAIN caseRecords}
                       \cup {WrongSecret}
        dests == {[fabric |-> f, random |-> PeerRandom] : f \in {ServerFabric, OtherFabric}}
        base(rid, mic, d) == [resumptionId |-> rid, resumeMic |-> mic, destinationId |-> d,
                              random |-> PeerRandom, ecdhPublicKey |-> PeerEcdhPublicKey]
        mics(rid) == {encrypt(hkdf(s, <<PeerRandom, rid>>, KDFSR1_KEY_INFO), <<>>,
                              RESUME1_MIC_NONCE) : s \in secrets}
    IN  {base(rid, mic, d) : rid \in rids, mic \in {Undefined}, d \in dests}
          \cup UNION {{base(rid, mic, d) : mic \in mics(rid), d \in dests} : rid \in rids}

\* The transcript hashes of the full branch (lines 147 and 157).
Sigma3Salt(n, sigma1) == [ipk |-> ServerFabric, s1 |-> sigma1, s2 |-> n]
Sigma3Key(sharedSecret, n, sigma1) == hkdf(sharedSecret, Sigma3Salt(n, sigma1), KDFSR3_INFO)

\* The Sigma3 messages a peer can send to handshake n: encrypted under the
\* right key or another, with a certificate of this fabric or another, signed
\* by the certificate's key or another, over the data with the roles swapped
\* (the peer's ephemeral key first) or not.
Sigma3s(n, sigma1) ==
    LET own == ecdhGeneratePublicKeyAndSecret(n, sigma1.ecdhPublicKey)
        datas(cert) == {TlvSignedData(cert, sigma1.ecdhPublicKey, own.publicKey),
                        TlvSignedData(cert, own.publicKey, sigma1.ecdhPublicKey)}
        msg(secret, cert, key, data) ==
            [encrypted |-> encrypt(Sigma3Key(secret, n, sigma1),
                                   [nodeOpCert |-> cert, signature |-> Sign(key, data)],
                                   TBE_DATA3_NONCE)]
    IN  UNION {{msg(secret, cert, key, data) :
                    secret \in {own.sharedSecret, WrongSecret},
                    key \in {c.publicKey : c \in PeerCerts},
                    data \in datas(cert)} : cert \in PeerCerts}

CaseInit ==
    /\ casePc = "idle"
    /\ caseMessenger = "none"
    /\ caseLog = <<>>
    /\ caseSent = <<>>
    /\ caseSessionId = 0
    /\ caseSigma1 = Undefined
    /\ caseResumptionId = Undefined
    /\ caseResumptionRecord = Undefined
    /\ caseSharedSecret = Undefined
    /\ caseSigma3 = Undefined
    /\ caseSessions = {}
    /\ caseRecords = <<>>
    /\ caseSaved = <<>>
    /\ caseError = Undefined

\* A message handed to the exchange.
CaseMessage(kind, resumptionId) == [kind |-> kind, resumptionId |-> resumptionId]

\* A throw inside handleSigma1: onNewExchange catches it, logs it and calls
\* messenger.sendError() (lines 77-79).
CaseThrow(error) ==
    /\ casePc' = "catch"
    /\ caseError' = [error |-> error]

\* onNewExchange(exchange): new messenger; handleSigma1 up to its first await
\* (getNextAvailableSessionId, getRandom, call of readSigma1).
CaseOnNewExchange ==
    /\ UNCHANGED notCaseVars
    /\ casePc \in {"idle", "done"}
    /\ caseSessionId < MaxExchanges
    /\ caseSessionId' = caseSessionId + 1
    /\ caseMessenger' = "open"
    /\ caseLog' = <<>>
    /\ caseSent' = <<>>
    /\ caseSigma1' = Undefined
    /\ caseResumptionId' = Undefined
    /\ caseResumptionRecord' = Undefined
    /\ caseSharedSecret' = Undefined
    /\ caseSigma3' = Undefined
    /\ caseError' = Undefined
    /\ casePc' = "readSigma1"
    /\ UNCHANGED <<caseSessions, caseRecords, caseSaved>>

\* The branch condition without the test of resumeMic.
TryResume_IgnoringMic(sigma1) ==
    IF sigma1.resumptionId # Undefined
      THEN findResumptionRecordById(sigma1.resumptionId)
      ELSE Undefined

\* The condition of line 103: the record to resume from, or Undefined.
TryResume(sigma1) ==
    IF sigma1.resumptionId # Undefined /\ sigma1.resumeMic # Undefined
      THEN findResumptionRecordById(sigma1.resumptionId)
      ELSE Undefined

\* await messenger.readSigma1() settles; getRandomData(16); the branch. Resume
\* branch: hkdf, decrypt of the peer's resumeMic, call of createSecureSession.
\* Full branch: findFabricFromDestinationId, ECDH, sign, encrypt, call of sendSigma2.
CaseReadSigma1 ==
    /\ UNCHANGED notCaseVars
    /\ casePc = "readSigma1"
    /\ \/ \E sigma1 \in Sigma1s(caseSessionId) :
            LET record == TryResume(sigma1) IN
            /\ caseSigma1' = sigma1
            /\ caseResumptionId' = [rid |-> caseSessionId]
            /\ caseResumptionRecord' = record
            /\ IF record # Undefined
                 THEN LET sharedSecret == caseRecords[record.ref].sharedSecret IN
                      /\ caseSharedSecret' = sharedSecret
                      /\ IF CanDecrypt(PeerResumeKey(sharedSecret, sigma1),
                                       sigma1.resumeMic, RESUME1_MIC_NONCE)
                           THEN /\ caseLog' = caseLog \o <<"readSigma1", "decryptResumeMic">>
                                /\ casePc' = "resumeCreateSecureSession"
                                /\ UNCHANGED caseError
                           ELSE /\ caseLog' = Append(caseLog, "readSigma1")
                                /\ CaseThrow("decrypt resumeMic")
                 ELSE IF findFabricFromDestinationId(sigma1.destinationId, sigma1.random)
                            = Undefined
                   THEN /\ caseLog' = Append(caseLog, "readSigma1")
                        /\ CaseThrow("Fabric cannot be found from destinationId")
                        /\ UNCHANGED caseSharedSecret
                   ELSE /\ caseSharedSecret' =
                              ecdhGeneratePublicKeyAndSecret(caseSessionId,
                                                             sigma1.ecdhPublicKey).sharedSecret
                        /\ caseLog' = Append(caseLog, "readSigma1")
                        /\ casePc' = "sendSigma2"
                        /\ UNCHANGED caseError
       \/ /\ CaseThrow("readSigma1")
          /\ UNCHANGED <<caseLog, caseSigma1, caseResumptionId, caseResumptionRecord,
                         caseSharedSecret>>
    /\ UNCHANGED <<caseMessenger, caseSent, caseSessionId, caseSigma3, caseSessions,
                   caseRecords, caseSaved>>

\* The session of this handshake, if it was created.
CaseSecureSession ==
    {s \in caseSessions : s.sessionId = caseSessionId}

\* server.createSecureSession(sessionId, fabric, peerNodeId, peerSessionId,
\*     sharedSecret, salt, false, isResumption, ...)
CaseNewSession(fabric, peerNodeId, sharedSecret, salt, isResumption) ==
    [sessionId |-> caseSessionId, fabric |-> fabric, peerNodeId |-> peerNodeId,
     sharedSecret |-> sharedSecret, salt |-> salt, isInitiator |-> FALSE,
     isResumption |-> isResumption, destroyed |-> FALSE]

\* await server.createSecureSession(...) of the resume branch settles; hkdf,
\* encrypt, call of sendSigma2Resume.
CaseResumeCreateSecureSession ==
    /\ UNCHANGED notCaseVars
    /\ casePc = "resumeCreateSecureSession"
    /\ LET record == caseRecords[caseResumptionRecord.ref] IN
       caseSessions' = caseSessions \cup
           {CaseNewSession(record.fabric, record.peerNodeId, caseSharedSecret,
                           [peerRandom |-> caseSigma1.random,
                            peerResumptionId |-> caseSigma1.resumptionId], TRUE)}
    /\ caseLog' = Append(caseLog, "createSecureSession")
    /\ casePc' = "sendSigma2Resume"
    /\ UNCHANGED <<caseMessenger, caseSent, caseSessionId, caseSigma1, caseResumptionId,
                   caseResumptionRecord, caseSharedSecret, caseSigma3, caseRecords,
                   caseSaved, caseError>>

\* secureSession.destroy()
DestroySession(sessions, id) ==
    {IF s.sessionId = id THEN [s EXCEPT !.destroyed = TRUE] ELSE s : s \in sessions}

\* await messenger.sendSigma2Resume(...) settles. Sent: resumptionRecord.resumptionId
\* is set to the new id and waitForSuccess is called. Not sent: the session is
\* destroyed and the error rethrown.
CaseSendSigma2Resume ==
    /\ UNCHANGED notCaseVars
    /\ casePc = "sendSigma2Resume"
    /\ \/ /\ caseSent' = Append(caseSent, CaseMessage("Sigma2Resume", caseResumptionId))
          /\ caseLog' = Append(caseLog, "sendSigma2Resume")
          /\ caseRecords' = [caseRecords EXCEPT
                                ![caseResumptionRecord.ref].resumptionId = caseResumptionId]
          /\ casePc' = "waitForSuccess"
          /\ UNCHANGED <<caseSessions, caseError>>
       \/ /\ caseSessions' = DestroySession(caseSessions, caseSessionId)
          /\ caseLog' = Append(caseLog, "destroy")
          /\ CaseThrow("sendSigma2Resume")
          /\ UNCHANGED <<caseSent, caseRecords>>
    /\ UNCHANGED <<caseMessenger, caseSessionId, caseSigma1, caseResumptionId,
                   caseResumptionRecord, caseSharedSecret, caseSigma3, caseSaved>>

\* await messenger.waitForSuccess() settles; messenger.close();
\* server.saveResumptionRecord(resumptionRecord).
CaseWaitForSuccess ==
    /\ UNCHANGED notCaseVars
    /\ casePc = "waitForSuccess"
    /\ \/ /\ caseLog' = caseLog \o <<"waitForSuccess", "close", "saveResumptionRecord">>
          /\ caseMessenger' = "closed"
          /\ caseSaved' = Append(caseSaved, caseRecords[caseResumptionRecord.ref])
          /\ casePc' = "done"
          /\ UNCHANGED caseError
       \/ /\ CaseThrow("waitForSuccess")
          /\ UNCHANGED <<caseLog, caseMessenger, caseSaved>>
    /\ UNCHANGED <<caseSent, caseSessionId, caseSigma1, caseResumptionId,
                   caseResumptionRecord, caseSharedSecret, caseSigma3, caseSessions,
                   caseRecords>>

\* await messenger.sendSigma2(...) settles; call of readSigma3.
CaseSendSigma2 ==
    /\ UNCHANGED notCaseVars
    /\ casePc = "sendSigma2"
    /\ \/ /\ caseSent' = Append(caseSent, CaseMessage("Sigma2", caseResumptionId))
          /\ caseLog' = Append(caseLog, "sendSigma2")
          /\ casePc' = "readSigma3"
          /\ UNCHANGED caseError
       \/ /\ CaseThrow("sendSigma2")
          /\ UNCHANGED <<caseSent, caseLog>>
    /\ UNCHANGED <<caseMessenger, caseSessionId, caseSigma1, caseResumptionId,
                   caseResumptionRecord, caseSharedSecret, caseSigma3, caseSessions,
                   caseRecords, caseSaved>>

\* What the peer signed, rebuilt by the server with the roles swapped (line 152).
PeerSignatureData(n, sigma1, cert) ==
    TlvSignedData(cert, sigma1.ecdhPublicKey,
                  ecdhGeneratePublicKeyAndSecret(n, sigma1.ecdhPublicKey).publicKey)

\* The checks of a Sigma3 without the signature verification.
Sigma3Steps_NoVerifySpki(n, sigma1, sharedSecret, sigma3) ==
    IF ~CanDecrypt(Sigma3Key(sharedSecret, n, sigma1), sigma3.encrypted, TBE_DATA3_NONCE)
      THEN <<"readSigma3">>
      ELSE LET tbe == decrypt(Sigma3Key(sharedSecret, n, sigma1), sigma3.encrypted,
                              TBE_DATA3_NONCE) IN
           IF ~VerifiesCredentials(ServerFabric, tbe.nodeOpCert)
             THEN <<"readSigma3", "decryptTBE3">>
             ELSE <<"readSigma3", "decryptTBE3", "verifyCredentials", "verifySpki">>

\* Lines 147-154 on a received Sigma3: the steps that complete, in order, until
\* one throws: decrypt, fabric.verifyCredentials, crypto.verifySpki.
Sigma3Steps(n, sigma1, sharedSecret, sigma3) ==
    IF ~CanDecrypt(Sigma3Key(sharedSecret, n, sigma1), sigma3.encrypted, TBE_DATA3_NONCE)
      THEN <<"readSigma3">>
      ELSE LET tbe == decrypt(Sigma3Key(sharedSecret, n, sigma1), sigma3.encrypted,
                              TBE_DATA3_NONCE) IN
           IF ~VerifiesCredentials(ServerFabric, tbe.nodeOpCert)
             THEN <<"readSigma3", "decryptTBE3">>
             ELSE IF ~VerifiesSpki(tbe.nodeOpCert.publicKey,
                                   PeerSignatureData(n, sigma1, tbe.nodeOpCert),
                                   tbe.signature)
               THEN <<"readSigma3", "decryptTBE3", "verifyCredentials">>
               ELSE <<"readSigma3", "decryptTBE3", "verifyCredentials", "verifySpki">>

\* await messenger.readSigma3() settles; the checks; call of createSecureSession.
CaseReadSigma3 ==
    /\ UNCHANGED notCaseVars
    /\ casePc = "readSigma3"
    /\ \/ \E sigma3 \in Sigma3s(caseSessionId, caseSigma1) :
            LET steps == Sigma3Steps(caseSessionId, caseSigma1, caseSharedSecret, sigma3) IN
            /\ caseSigma3' = sigma3
            /\ caseLog' = caseLog \o steps
            /\ IF Len(steps) = 4
                 THEN /\ casePc' = "createSecureSession"
                      /\ UNCHANGED caseError
                 ELSE CaseThrow(CASE Len(steps) = 1 -> "decrypt TBE3"
                                  [] Len(steps) = 2 -> "verifyCredentials"
                                  [] OTHER -> "verifySpki")
       \/ /\ CaseThrow("readSigma3")
          /\ UNCHANGED <<caseLog, caseSigma3>>
    /\ UNCHANGED <<caseMessenger, caseSent, caseSessionId, caseSigma1, caseResumptionId,
                   caseResumptionRecord, caseSharedSecret, caseSessions, caseRecords,
                   caseSaved>>

\* The operational certificate inside the received Sigma3.
PeerNewOpCert == caseSigma3.encrypted.data.nodeOpCert

\* await server.createSecureSession(...) of the full branch settles; call of sendSuccess.
CaseFullCreateSecureSession ==
    /\ UNCHANGED notCaseVars
    /\ casePc = "createSecureSession"
    /\ caseSessions' = caseSessions \cup
           {CaseNewSession(ServerFabric, PeerNewOpCert.nodeId, caseSharedSecret,
                           [ipk |-> ServerFabric, s1 |-> caseSigma1, s2 |-> caseSessionId,
                            s3 |-> caseSigma3], FALSE)}
    /\ caseLog' = Append(caseLog, "createSecureSession")
    /\ casePc' = "sendSuccess"
    /\ UNCHANGED <<caseMessenger, caseSent, caseSessionId, caseSigma1, caseResumptionId,
                   caseResumptionRecord, caseSharedSecret, caseSigma3, caseRecords,
                   caseSaved, caseError>>

\* The record of line 162.
NewResumptionRecord ==
    [peerNodeId |-> PeerNewOpCert.nodeId, fabric |-> ServerFabric,
     sharedSecret |-> caseSharedSecret, resumptionId |-> caseResumptionId]

\* The same step, saving the record whether or not the status was sent.
CaseSendSuccess_SaveAlways ==
    /\ UNCHANGED notCaseVars
    /\ casePc = "sendSuccess"
    /\ caseResumptionRecord' = [ref |-> Len(caseRecords) + 1]
    /\ caseRecords' = Append(caseRecords, NewResumptionRecord)
    /\ caseSaved' = Append(caseSaved, NewResumptionRecord)
    /\ \/ /\ caseSent' = Append(caseSent, CaseMessage("Success", Undefined))
          /\ caseLog' = caseLog \o <<"sendSuccess", "close", "saveResumptionRecord">>
          /\ caseMessenger' = "closed"
          /\ casePc' = "done"
          /\ UNCHANGED caseError
       \/ /\ CaseThrow("sendSuccess")
          /\ caseLog' = Append(caseLog, "saveResumptionRecord")
          /\ UNCHANGED <<caseSent, caseMessenger>>
    /\ UNCHANGED <<caseSessionId, caseSigma1, caseResumptionId, caseSharedSecret,
                   caseSigma3, caseSessions>>

\* await messenger.sendSuccess() settles; the new resumption record;
\* messenger.close(); server.saveResumptionRecord(resumptionRecord).
CaseSendSuccess ==
    /\ UNCHANGED notCaseVars
    /\ casePc = "sendSuccess"
    /\ \/ /\ caseSent' = Append(caseSent, CaseMessage("Success", Undefined))
          /\ caseLog' = caseLog \o <<"sendSuccess", "close", "saveResumptionRecord">>
          /\ caseResumptionRecord' = [ref |-> Len(caseRecords) + 1]
          /\ caseMessenger' = "closed"
          /\ caseRecords' = Append(caseRecords, NewResumptionRecord)
          /\ caseSaved' = Append(caseSaved, NewResumptionRecord)
          /\ casePc' = "done"
          /\ UNCHANGED caseError
       \/ /\ CaseThrow("sendSuccess")
          /\ UNCHANGED <<caseSent, caseLog, caseResumptionRecord, caseMessenger,
                         caseRecords, caseSaved>>
    /\ UNCHANGED <<caseSessionId, caseSigma1, caseResumptionId, caseSharedSecret,
                   caseSigma3, caseSessions>>

\* The catch block without the status.
CaseCatch_Silent ==
    /\ UNCHANGED notCaseVars
    /\ casePc = "catch"
    /\ casePc' = "done"
    /\ UNCHANGED <<caseMessenger, caseLog, caseSent, caseSessionId, caseSigma1,
                   caseResumptionId, caseResumptionRecord, caseSharedSecret, caseSigma3,
                   caseSessions, caseRecords, caseSaved, caseError>>

\* The catch block of onNewExchange: await messenger.sendError() settles (the
\* status is sent, or the send rejects and onNewExchange with it).
CaseCatch ==
    /\ UNCHANGED notCaseVars
    /\ casePc = "catch"
    /\ \/ /\ caseSent' = Append(caseSent, CaseMessage("Error", Undefined))
          /\ caseLog' = Append(caseLog, "sendError")
       \/ /\ caseLog' = Append(caseLog, "sendError rejected")
          /\ UNCHANGED caseSent
    /\ casePc' = "done"
    /\ UNCHANGED <<caseMessenger, caseSessionId, caseSigma1, caseResumptionId,
                   caseResumptionRecord, caseSharedSecret, caseSigma3, caseSessions,
                   caseRecords, caseSaved, caseError>>

CaseNext ==
    \/ CaseOnNewExchange
    \/ CaseReadSigma1
    \/ CaseResumeCreateSecureSession
    \/ CaseSendSigma2Resume
    \/ CaseWaitForSuccess
    \/ CaseSendSigma2
    \/ CaseReadSigma3
    \/ CaseFullCreateSecureSession
    \/ CaseSendSuccess
    \/ CaseCatch

(***************************************************************************)
(* Interaction client: SubscriptionClient.onNewExchange, subscribe and     *)
(* subscribeMultipleAttributes                                             *)
(***************************************************************************)
\* Longest values list of a DataReport.
MaxReportValues == 2

\* Subscription ids a peer may issue or report for.
SubscriptionIds == {[subscriptionId |-> 1], [subscriptionId |-> 2]}
\* Attribute paths: the OnOff attribute of scenario S6 and a second attribute.
OnOffPath == [endpointId |-> 1, clusterId |-> 6, attributeId |-> 0]
OtherPath == [endpointId |-> 1, clusterId |-> 6, attributeId |-> 1]
\* The listener argument of subscribe and subscribeMultipleAttributes.
UserListeners == {[fn |-> "onChange"]}

\* attributePathToId({ endpointId, clusterId, attributeId })
attributePathToId(path) == <<path.endpointId, path.clusterId, path.attributeId>>

\* TlvAttributeReport entries a peer may send: attribute data (value false at
\* version 7 and value true at version 9 of the first path, a value of the
\* second path that decodes to undefined), or an attribute status without data.
AttributeData(path, value, version) ==
    [attributeData |-> [path |-> path, value |-> value, version |-> version]]
AttributeReports ==
    {AttributeData(OnOffPath, [bool |-> FALSE], 7),
     AttributeData(OnOffPath, [bool |-> TRUE], 9),
     AttributeData(OtherPath, Undefined, 7),
     [attributeStatus |-> [status |-> "Failure"]]}

RECURSIVE SeqsUpTo(_, _)
\* The sequences over S of length at most n.
SeqsUpTo(S, n) ==
    IF n = 0 THEN {<<>>}
    ELSE LET shorter == SeqsUpTo(S, n - 1)
         IN  shorter \cup {Append(q, x) : q \in shorter, x \in S}

\* The DataReports a peer may send: with or without subscriptionId and values
\* (a report without values has no values field).
ValueLists == SeqsUpTo(AttributeReports, MaxReportValues)
ReportsOf(id) ==
    {[subscriptionId |-> id, values |-> vs] : vs \in ValueLists}
    \cup {[subscriptionId |-> id]}
DataReports == UNION {ReportsOf(id) : id \in SubscriptionIds \cup {Undefined}}

RECURSIVE normalizeAndDecodeReadAttributeReport(_)
\* normalizeAndDecodeReadAttributeReport(values): the decoded attribute data
\* of the entries that carry data, in order.
normalizeAndDecodeReadAttributeReport(values) ==
    IF values = <<>> THEN <<>>
    ELSE LET rest == normalizeAndDecodeReadAttributeReport(Tail(values))
         IN  IF "attributeData" \in DOMAIN Head(values)
               THEN <<Head(values).attributeData>> \o rest
               ELSE rest

\* A map whose set keeps the value a key already has.
MapSet_KeepExisting(map, key, value) ==
    [k \in DOMAIN map \cup {key} |-> IF k \in DOMAIN map THEN map[k] ELSE value]

\* Map.set(key, value)
MapSet(map, key, value) ==
    [k \in DOMAIN map \cup {key} |-> IF k = key THEN value ELSE map[k]]

\* What a run of a subscription listener leaves: the cache, the calls of the
\* user listener it made, and the error it threw (or Undefined).
Ran(cache, calls, error) == [cache |-> cache, calls |-> calls, error |-> error]
\* listener?.(...): the call records what the cache holds for the path when the
\* user listener is called.
UserCall(fn, data, cache) ==
    IF fn = Undefined THEN <<>>
    ELSE <<[fn |-> fn, path |-> data.path, value |-> data.value, version |-> data.version,
            cached |-> IF attributePathToId(data.path) \in DOMAIN cache
                         THEN cache[attributePathToId(data.path)] ELSE Undefined]>>

RECURSIVE Delivered(_, _)
\* The values user listeners were last called with, per path, after the calls.
Delivered(accepted, calls) ==
    IF calls = <<>> THEN accepted
    ELSE Delivered(MapSet(accepted, attributePathToId(Head(calls).path),
                          [value |-> Head(calls).value, version |-> Head(calls).version]),
                   Tail(calls))

\* Whether the report counts as empty for a subscription listener (lines 206, 242).
EmptyResult(dataReport) ==
    "values" \notin DOMAIN dataReport \/ dataReport.values = <<>>

\* The same listener keeping a cached value of a newer data version.
SingleListenerRun_NewerOnly(fn, dataReport, cache) ==
    IF EmptyResult(dataReport) THEN Ran(cache, <<>>, Undefined)
    ELSE LET data == normalizeAndDecodeReadAttributeReport(dataReport.values) IN
         IF Len(data) # 1 \/ data[1].value = Undefined
           THEN Ran(cache, <<>>, [error |-> "Subscription result not accepted"])
         ELSE IF /\ attributePathToId(data[1].path) \in DOMAIN cache
                 /\ cache[attributePathToId(data[1].path)].version > data[1].version
           THEN Ran(cache, UserCall(fn, data[1], cache), Undefined)
         ELSE LET updated == MapSet(cache, attributePathToId(data[1].path),
                                    [value |-> data[1].value, version |-> data[1].version])
              IN  Ran(updated, UserCall(fn, data[1], updated), Undefined)

\* The same listener taking the first entry of a report that decodes to several.
SingleListenerRun_FirstOfMany(fn, dataReport, cache) ==
    IF EmptyResult(dataReport) THEN Ran(cache, <<>>, Undefined)
    ELSE LET data == normalizeAndDecodeReadAttributeReport(dataReport.values) IN
         IF Len(data) = 0
           THEN Ran(cache, <<>>,
                    [error |-> "Subscription result reporting undefined/no value not specified"])
         ELSE IF data[1].value = Undefined
           THEN Ran(cache, <<>>,
                    [error |-> "Subscription result reporting undefined value not specified"])
         ELSE LET updated == MapSet(cache, attributePathToId(data[1].path),
                                    [value |-> data[1].value, version |-> data[1].version])
              IN  Ran(updated, UserCall(fn, data[1], updated), Undefined)

\* The subscriptionListener of subscribe (lines 205-224) run on a report.
SingleListenerRun(fn, dataReport, cache) ==
    IF EmptyResult(dataReport) THEN Ran(cache, <<>>, Undefined)
    ELSE LET data == normalizeAndDecodeReadAttributeReport(dataReport.values) IN
         IF Len(data) = 0
           THEN Ran(cache, <<>>,
                    [error |-> "Subscription result reporting undefined/no value not specified"])
         ELSE IF Len(data) > 1
           THEN Ran(cache, <<>>, [error |-> "Unexpected response with more then one attribute"])
         ELSE IF data[1].value = Undefined
           THEN Ran(cache, <<>>,
                    [error |-> "Subscription result reporting undefined value not specified"])
         ELSE LET updated == MapSet(cache, attributePathToId(data[1].path),
                                    [value |-> data[1].value, version |-> data[1].version])
              IN  Ran(updated, UserCall(fn, data[1], updated), Undefined)

RECURSIVE ForEachValue(_, _, _, _)
\* values.forEach(...) of lines 248-253 from entry i on: every entry updates the
\* cache and is handed to the user listener, until one has an undefined value.
ForEachValue(fn, data, i, ran) ==
    IF i > Len(data) THEN ran
    ELSE IF data[i].value = Undefined
      THEN Ran(ran.cache, ran.calls,
               [error |-> "Subscription result reporting undefined value not specified"])
    ELSE LET updated == MapSet(ran.cache, attributePathToId(data[i].path),
                               [value |-> data[i].value, version |-> data[i].version])
         IN  ForEachValue(fn, data, i + 1,
                          Ran(updated, ran.calls \o UserCall(fn, data[i], updated), Undefined))

\* The subscriptionListener of subscribeMultipleAttributes (lines 241-254) run
\* on a report.
MultiListenerRun(fn, dataReport, cache) ==
    IF EmptyResult(dataReport) THEN Ran(cache, <<>>, Undefined)
    ELSE ForEachValue(fn, normalizeAndDecodeReadAttributeReport(dataReport.values), 1,
                      Ran(cache, <<>>, Undefined))

\* A subscription listener is the closure one of the two subscribe operations
\* built, over the user listener it was given.
SubscriptionListener(kind, fn) == [kind |-> kind, fn |-> fn]
ListenerRun(listener, dataReport, cache) ==
    IF listener.kind = "single"
      THEN SingleListenerRun(listener.fn, dataReport, cache)
      ELSE MultiListenerRun(listener.fn, dataReport, cache)

\* What the run of a listener on the initial report of a subscribe response
\* with the given subscriptionId can leave.
InitialRuns(id, listener, cache) ==
    {ListenerRun(listener, report, cache) : report \in ReportsOf(id)}

IcInit ==
    /\ subscriptionListeners = <<>>
    /\ subscribedLocalValues = <<>>
    /\ acceptedValues = <<>>
    /\ recvPc = "idle"
    /\ recvMessenger = "none"
    /\ recvDataReport = Undefined
    /\ recvListener = Undefined
    /\ recvSent = <<>>
    /\ recvInvoked = <<>>
    /\ recvResult = "pending"
    /\ recvSubscribed = {}
    /\ subPc = "idle"
    /\ subMessenger = "none"
    /\ subListener = Undefined
    /\ subResponse = Undefined
    /\ subResult = "pending"
    /\ subReplaced = Undefined

\* ---- SubscriptionClient.onNewExchange ----

\* The subscription ids the peer has sent a SubscribeResponse for: those of
\* the registered listeners and the one in flight to a subscribe call.
\* recvSubscribed keeps them as of the sending of the report in hand, until the
\* lookup of its subscriptionId is settled.
PeerSubscribed ==
    DOMAIN subscriptionListeners
        \cup (IF subPc = "subscribeResponse" THEN {subResponse} ELSE {})

\* onNewExchange(exchange) up to its first await: new incoming messenger, call
\* of readDataReport. The exchange is opened by the peer's DataReport, which
\* the peer sent after the SubscribeResponses it had sent by now.
RecvOnNewExchange ==
    /\ UNCHANGED notIcVars
    /\ recvPc \in {"idle", "done"}
    /\ recvMessenger' = "open"
    /\ recvDataReport' = Undefined
    /\ recvListener' = Undefined
    /\ recvSent' = <<>>
    /\ recvInvoked' = <<>>
    /\ recvResult' = "pending"
    /\ recvSubscribed' = PeerSubscribed
    /\ recvPc' = "readDataReport"
    /\ UNCHANGED <<subscriptionListeners, subscribedLocalValues, acceptedValues,
                   subPc, subMessenger, subListener, subResponse, subResult, subReplaced>>

\* Lines 74-83: the listener registered for the report's subscriptionId, or
\* Undefined when the id is absent or no listener is registered for it.
RecvLookup(dataReport) ==
    IF dataReport.subscriptionId = Undefined THEN Undefined
    ELSE IF dataReport.subscriptionId \in DOMAIN subscriptionListeners
      THEN subscriptionListeners[dataReport.subscriptionId]
    ELSE Undefined

\* await messenger.readDataReport() settles; the subscriptionId and the
\* listener are looked up; call of sendStatus(InvalidSubscription) or
\* sendStatus(Success).
RecvReadDataReport ==
    /\ UNCHANGED notIcVars
    /\ recvPc = "readDataReport"
    /\ \/ \E dataReport \in DataReports :
            /\ recvDataReport' = dataReport
            /\ recvListener' = RecvLookup(dataReport)
            /\ recvPc' = IF RecvLookup(dataReport) = Undefined
                           THEN "sendInvalidSubscription" ELSE "sendSuccess"
            /\ recvSubscribed' = IF RecvLookup(dataReport) = Undefined
                                   THEN recvSubscribed \cap {dataReport.subscriptionId}
                                   ELSE {}
            /\ UNCHANGED recvResult
       \/ /\ recvPc' = "done"
          /\ recvResult' = "ReadError"
          /\ recvSubscribed' = {}
          /\ UNCHANGED <<recvDataReport, recvListener>>
    /\ UNCHANGED <<subscriptionListeners, subscribedLocalValues, acceptedValues,
                   recvMessenger, recvSent, recvInvoked,
                   subPc, subMessenger, subListener, subResponse, subResult, subReplaced>>

\* await messenger.sendStatus(StatusCode.InvalidSubscription) settles; the throw
\* of line 77 or 82 (or the rejection of the send).
RecvSendInvalidSubscription ==
    /\ UNCHANGED notIcVars
    /\ recvPc = "sendInvalidSubscription"
    /\ \/ /\ recvSent' = Append(recvSent, "InvalidSubscription")
          /\ recvResult' = IF recvDataReport.subscriptionId = Undefined
                             THEN "Invalid Data report without Subscription ID"
                             ELSE "Unknown subscription ID"
       \/ /\ recvResult' = "TransportError"
          /\ UNCHANGED recvSent
    /\ recvPc' = "done"
    /\ recvSubscribed' = {}
    /\ UNCHANGED <<subscriptionListeners, subscribedLocalValues, acceptedValues,
                   recvMessenger, recvDataReport, recvListener, recvInvoked,
                   subPc, subMessenger, subListener, subResponse, subResult, subReplaced>>

\* The same step calling the listener whether or not the status was sent.
RecvSendSuccess_ListenerAlways ==
    /\ UNCHANGED notIcVars
    /\ recvPc = "sendSuccess"
    /\ LET ran == ListenerRun(recvListener, recvDataReport, subscribedLocalValues) IN
       /\ \/ recvSent' = Append(recvSent, "Success")
          \/ UNCHANGED recvSent
       /\ recvInvoked' = Append(recvInvoked,
                                [listener |-> recvListener, dataReport |-> recvDataReport])
       /\ subscribedLocalValues' = ran.cache
       /\ acceptedValues' = Delivered(acceptedValues, ran.calls)
       /\ recvResult' = IF ran.error = Undefined THEN "returned" ELSE ran.error.error
    /\ recvPc' = "done"
    /\ UNCHANGED <<subscriptionListeners, recvMessenger, recvDataReport, recvListener, recvSubscribed,
                   subPc, subMessenger, subListener, subResponse, subResult, subReplaced>>

\* await messenger.sendStatus(StatusCode.Success) settles; listener(dataReport).
\* An exception of the listener leaves onNewExchange uncaught.
RecvSendSuccess ==
    /\ UNCHANGED notIcVars
    /\ recvPc = "sendSuccess"
    /\ \/ LET ran == ListenerRun(recvListener, recvDataReport, subscribedLocalValues) IN
          /\ recvSent' = Append(recvSent, "Success")
          /\ recvInvoked' = Append(recvInvoked,
                                   [listener |-> recvListener, dataReport |-> recvDataReport])
          /\ subscribedLocalValues' = ran.cache
          /\ acceptedValues' = Delivered(acceptedValues, ran.calls)
          /\ recvResult' = IF ran.error = Undefined THEN "returned" ELSE ran.error.error
       \/ /\ recvResult' = "TransportError"
          /\ UNCHANGED <<recvSent, recvInvoked, subscribedLocalValues, acceptedValues>>
    /\ recvPc' = "done"
    /\ UNCHANGED <<subscriptionListeners, recvMessenger, recvDataReport, recvListener, recvSubscribed,
                   subPc, subMessenger, subListener, subResponse, subResult, subReplaced>>

\* ---- InteractionClient.subscribe / subscribeMultipleAttributes ----

\* withMessenger: new InteractionClientMessenger; the operation up to its first
\* await, the call of sendSubscribeRequest.
SubscribeCall(kind, fn) ==
    /\ subPc \in {"idle", "done"}
    /\ subMessenger' = "open"
    /\ subListener' = SubscriptionListener(kind, fn)
    /\ subResponse' = Undefined
    /\ subResult' = "pending"
    /\ subReplaced' = Undefined
    /\ subPc' = "sendSubscribeRequest"
    /\ UNCHANGED <<subscriptionListeners, subscribedLocalValues, acceptedValues,
                   recvPc, recvMessenger, recvDataReport, recvListener, recvSent,
                   recvInvoked, recvResult, recvSubscribed>>

\* subscribe(endpointId, clusterId, attribute, minFloor, maxCeiling, listener)
IcSubscribe ==
    /\ UNCHANGED notIcVars
    /\ \E fn \in UserListeners : SubscribeCall("single", fn)

\* subscribeMultipleAttributes(attributeRequests, minFloor, maxCeiling, listener)
IcSubscribeMultipleAttributes ==
    /\ UNCHANGED notIcVars
    /\ \E fn \in UserListeners : SubscribeCall("multi", fn)

\* The peer answers the SubscribeRequest: its initial DataReport and its
\* SubscribeResponse with the subscriptionId are in flight to the await of
\* sendSubscribeRequest; from now on the peer may send reports for that id.
PeerSubscribeResponse ==
    /\ UNCHANGED notIcVars
    /\ subPc = "sendSubscribeRequest"
    /\ \E id \in SubscriptionIds : subResponse' = id
    /\ subPc' = "subscribeResponse"
    /\ UNCHANGED <<subscriptionListeners, subscribedLocalValues, acceptedValues,
                   subMessenger, subListener,
                   subResult, subReplaced, recvPc, recvMessenger, recvDataReport, recvListener,
                   recvSent, recvInvoked, recvResult, recvSubscribed>>

\* The same step registering the listener only after it has processed the
\* initial report without raising.
IcSendSubscribeRequest_RegisterAfter ==
    /\ UNCHANGED notIcVars
    /\ \/ /\ subPc = "subscribeResponse"
          /\ \E ran \in InitialRuns(subResponse, subListener, subscribedLocalValues) :
                /\ subscriptionListeners' =
                       IF ran.error = Undefined
                         THEN MapSet(subscriptionListeners, subResponse, subListener)
                         ELSE subscriptionListeners
                /\ subscribedLocalValues' = ran.cache
                /\ acceptedValues' = Delivered(acceptedValues, ran.calls)
                /\ subResult' = IF ran.error = Undefined THEN "returned" ELSE ran.error.error
                /\ subReplaced' = IF subResponse \in DOMAIN subscriptionListeners
                                    THEN subscriptionListeners[subResponse] ELSE Undefined
       \/ /\ subPc \in {"sendSubscribeRequest", "subscribeResponse"}
          /\ subResult' = "TransportError"
          /\ UNCHANGED <<subscriptionListeners, subscribedLocalValues, acceptedValues,
                         subReplaced>>
    /\ subMessenger' = "closed"
    /\ subListener' = Undefined
    /\ subResponse' = Undefined
    /\ subPc' = "done"
    /\ UNCHANGED <<recvPc, recvMessenger, recvDataReport, recvListener,
                   recvSent, recvInvoked, recvResult, recvSubscribed>>

\* await messenger.sendSubscribeRequest(...) settles. With {report,
\* subscribeResponse}: the listener is registered under the subscriptionId and
\* run on the initial report. In every case the finally of withMessenger closes
\* the messenger.
IcSendSubscribeRequest ==
    /\ UNCHANGED notIcVars
    /\ \/ /\ subPc = "subscribeResponse"
          /\ \E ran \in InitialRuns(subResponse, subListener, subscribedLocalValues) :
                /\ subscriptionListeners' =
                       MapSet(subscriptionListeners, subResponse, subListener)
                /\ subscribedLocalValues' = ran.cache
                /\ acceptedValues' = Delivered(acceptedValues, ran.calls)
                /\ subResult' = IF ran.error = Undefined THEN "returned" ELSE ran.error.error
                /\ subReplaced' = IF subResponse \in DOMAIN subscriptionListeners
                                    THEN subscriptionListeners[subResponse] ELSE Undefined
       \/ /\ subPc \in {"sendSubscribeRequest", "subscribeResponse"}
          /\ subResult' = "TransportError"
          /\ UNCHANGED <<subscriptionListeners, subscribedLocalValues, acceptedValues,
                         subReplaced>>
    /\ subMessenger' = "closed"
    /\ subListener' = Undefined
    /\ subResponse' = Undefined
    /\ subPc' = "done"
    /\ UNCHANGED <<recvPc, recvMessenger, recvDataReport, recvListener,
                   recvSent, recvInvoked, recvResult, recvSubscribed>>

IcNext ==
    \/ RecvOnNewExchange
    \/ RecvReadDataReport
    \/ RecvSendInvalidSubscription
    \/ RecvSendSuccess
    \/ IcSubscribe
    \/ IcSubscribeMultipleAttributes
    \/ PeerSubscribeResponse
    \/ IcSendSubscribeRequest

(***************************************************************************)
(* Interaction client: get, getMultipleAttributes and processReadRequest   *)
(***************************************************************************)
\* Number of DataReports that answer one read.
MaxChunks == 3

\* The values a DataReport answering a read may carry (it may also carry none).
ReadValueLists ==
    {<<AttributeData(OnOffPath, [bool |-> FALSE], 7)>>,
     <<AttributeData(OnOffPath, [bool |-> TRUE], 9),
       [attributeStatus |-> [status |-> "Failure"]]>>}
\* The DataReports a peer may answer a read with.
ReadReports ==
    {[values |-> vs, suppressResponse |-> sr, moreChunkedMessages |-> more] :
        vs \in ReadValueLists, sr \in BOOLEAN, more \in BOOLEAN}
    \cup {[suppressResponse |-> sr, moreChunkedMessages |-> more] :
              sr \in BOOLEAN, more \in BOOLEAN}

OpInit ==
    /\ opPc = "idle"
    /\ opKind = "none"
    /\ opArgs = Undefined
    /\ opMessenger = "none"
    /\ opSent = <<>>
    /\ opResponse = Undefined
    /\ opChunks = <<>>
    /\ opResult = <<>>
    /\ opReturn = Undefined

\* A public operation is called: the state of the call before its first step.
OpCall(kind, args) ==
    /\ opPc \in {"idle", "done"}
    /\ opKind' = kind
    /\ opArgs' = args
    /\ opResponse' = Undefined
    /\ opChunks' = <<>>
    /\ opResult' = <<>>

\* The operation settles: with a value, or with the error it throws.
Returned(value) == [value |-> value]
Thrown(error) == [error |-> error]

\* withMessenger + processReadRequest up to its first await: new messenger,
\* call of sendReadRequest.
ReadCall ==
    /\ opMessenger' = "open"
    /\ opSent' = <<"ReadRequest">>
    /\ opReturn' = Undefined
    /\ opPc' = "sendReadRequest"

\* get(endpointId, clusterId, attribute): a cached value is returned at once;
\* otherwise getMultipleAttributes is called for the one path.
OpGet ==
    /\ UNCHANGED notOpVars
    /\ \E path \in {OnOffPath, OtherPath} :
          /\ OpCall("get", [path |-> path])
          /\ IF attributePathToId(path) \in DOMAIN subscribedLocalValues
               THEN /\ opReturn' =
                          Returned(subscribedLocalValues[attributePathToId(path)].value)
                    /\ opMessenger' = "none"
                    /\ opSent' = <<>>
                    /\ opPc' = "done"
               ELSE ReadCall

\* getMultipleAttributes(attributes)
OpGetMultipleAttributes ==
    /\ UNCHANGED notOpVars
    /\ OpCall("getMultipleAttributes", [attributes |-> <<OnOffPath, OtherPath>>])
    /\ ReadCall

\* The end of get after getMultipleAttributes returned response (lines 124-130).
GetResult(response) ==
    IF Len(response) = 0 THEN Returned(Undefined)
    ELSE IF Len(response) > 1
      THEN Thrown("Unexpected response with more then one attribute")
    ELSE Returned(response[1].value)

\* processReadRequest returns normalizeAndDecodeReadAttributeReport(result);
\* the finally of withMessenger closes the messenger; get goes on with the list.
ReadReturn(result) ==
    /\ opReturn' = IF opKind = "get"
                     THEN GetResult(normalizeAndDecodeReadAttributeReport(result))
                     ELSE Returned(normalizeAndDecodeReadAttributeReport(result))
    /\ opMessenger' = "closed"
    /\ opPc' = "done"

\* The same exit leaving the messenger as it is.
ReadThrow_Leaking(error) ==
    /\ opReturn' = Thrown(error)
    /\ opPc' = "done"
    /\ UNCHANGED <<opKind, opArgs, opSent, opResponse, opChunks, opResult, opMessenger>>

\* An await of the read rejects: the finally of withMessenger closes the
\* messenger and the operation rejects.
ReadThrow(error) ==
    /\ opReturn' = Thrown(error)
    /\ opMessenger' = "closed"
    /\ opPc' = "done"
    /\ UNCHANGED <<opKind, opArgs, opSent, opResponse, opChunks, opResult>>

\* The same pass putting the values of the new chunk in front of the earlier ones.
ReadLoop_Prepending(response) ==
    LET result == IF "values" \in DOMAIN response
                    THEN response.values \o opResult ELSE opResult
    IN  /\ opResponse' = response
        /\ opChunks' = Append(opChunks, response)
        /\ opResult' = result
        /\ UNCHANGED <<opKind, opArgs, opSent>>
        /\ IF ~response.suppressResponse
             THEN /\ opPc' = "sendStatus"
                  /\ UNCHANGED <<opMessenger, opReturn>>
           ELSE IF ~response.moreChunkedMessages
             THEN ReadReturn(result)
           ELSE /\ opPc' = "readDataReport"
                /\ UNCHANGED <<opMessenger, opReturn>>

\* The same pass answering every DataReport, whatever its suppressResponse.
ReadLoop_AlwaysStatus(response) ==
    LET result == IF "values" \in DOMAIN response
                    THEN opResult \o response.values ELSE opResult
    IN  /\ opResponse' = response
        /\ opChunks' = Append(opChunks, response)
        /\ opResult' = result
        /\ UNCHANGED <<opKind, opArgs, opSent>>
        /\ opPc' = "sendStatus"
        /\ UNCHANGED <<opMessenger, opReturn>>

\* One pass of the loop of lines 137-146 from its top to its next await (or to
\* the return) for a DataReport just received.
ReadLoop(response) ==
    LET result == IF "values" \in DOMAIN response
                    THEN opResult \o response.values ELSE opResult
    IN  /\ opResponse' = response
        /\ opChunks' = Append(opChunks, response)
        /\ opResult' = result
        /\ UNCHANGED <<opKind, opArgs, opSent>>
        /\ IF ~response.suppressResponse
             THEN /\ opPc' = "sendStatus"
                  /\ UNCHANGED <<opMessenger, opReturn>>
           ELSE IF ~response.moreChunkedMessages
             THEN ReadReturn(result)
           ELSE /\ opPc' = "readDataReport"
                /\ UNCHANGED <<opMessenger, opReturn>>

\* The DataReports that may arrive as the next one of this read: the peer
\* answers a read with at most peerMaxChunks of them.
NextReadReports ==
    {r \in ReadReports : r.moreChunkedMessages => Len(opChunks) + 1 < peerMaxChunks}

\* await messenger.sendReadRequest(request) settles.
OpSendReadRequest ==
    /\ UNCHANGED notOpVars
    /\ opPc = "sendReadRequest"
    /\ \/ \E response \in NextReadReports : ReadLoop(response)
       \/ ReadThrow("TransportError")

\* await messenger.sendStatus(StatusCode.Success) settles (line 142).
OpSendStatus ==
    /\ UNCHANGED notOpVars
    /\ opPc = "sendStatus"
    /\ \/ /\ opSent' = Append(opSent, "Success")
          /\ UNCHANGED <<opKind, opArgs, opResponse, opChunks, opResult>>
          /\ IF ~opResponse.moreChunkedMessages
               THEN ReadReturn(opResult)
               ELSE /\ opPc' = "readDataReport"
                    /\ UNCHANGED <<opMessenger, opReturn>>
       \/ ReadThrow("TransportError")

\* await messenger.readDataReport() settles (line 145).
OpReadDataReport ==
    /\ UNCHANGED notOpVars
    /\ opPc = "readDataReport"
    /\ \/ \E response \in NextReadReports : ReadLoop(response)
       \/ ReadThrow("TransportError")

(***************************************************************************)
(* Interaction client: set and setMultipleAttributes                       *)
(***************************************************************************)
\* Longest writeResponses list of a WriteResponse.
MaxWriteResponses == 2

\* StatusCode.Success, StatusCode.Failure and other status codes.
Success == [code |-> "Success"]
Failure == [code |-> "Failure"]
UnsupportedWrite == [code |-> "UnsupportedWrite"]
ClusterError == [code |-> "ClusterError"]

\* The entries a WriteResponse may carry: {status: {status?, clusterStatus?}, path}.
WriteResponseEntry(status, clusterStatus) ==
    [status |-> [status |-> status, clusterStatus |-> clusterStatus], path |-> OnOffPath]
WriteResponseEntries ==
    {WriteResponseEntry(Undefined, Undefined),
     WriteResponseEntry(Undefined, Success),
     WriteResponseEntry(Undefined, ClusterError),
     WriteResponseEntry(Success, Undefined),
     WriteResponseEntry(Success, ClusterError),
     WriteResponseEntry(UnsupportedWrite, Undefined)}
\* What sendWriteCommand may resolve with: a WriteResponse, or undefined.
WriteResponses ==
    {[writeResponses |-> rs] : rs \in SeqsUpTo(WriteResponseEntries, MaxWriteResponses)}
        \cup {Undefined}

\* The operator taking its right operand whenever that is defined.
Nullish_PreferSecond(a, b) == IF b = Undefined THEN a ELSE b

\* a ?? b
Nullish(a, b) == IF a = Undefined THEN b ELSE a

RECURSIVE AttributeStatuses(_)
\* writeResponses.flatMap(...).filter(({ status }) => status !== StatusCode.Success)
AttributeStatuses(writeResponses) ==
    IF writeResponses = <<>> THEN <<>>
    ELSE LET entry == Head(writeResponses)
             status == Nullish(entry.status.status,
                               Nullish(entry.status.clusterStatus, Failure))
             rest == AttributeStatuses(Tail(writeResponses))
         IN  IF status # Success
               THEN <<[path |-> entry.path, status |-> status]>> \o rest
               ELSE rest

\* withMessenger + setMultipleAttributes up to its await: new messenger, call of
\* sendWriteCommand.
WriteCall ==
    /\ opMessenger' = "open"
    /\ opSent' = <<"WriteRequest">>
    /\ opReturn' = Undefined
    /\ opPc' = "sendWriteCommand"

\* set(endpointId, clusterId, attribute, value, dataVersion)
OpSet ==
    /\ UNCHANGED notOpVars
    /\ \E path \in {OnOffPath, OtherPath} :
          OpCall("set", [path |-> path, value |-> [bool |-> TRUE]])
    /\ WriteCall

\* setMultipleAttributes(attributes)
OpSetMultipleAttributes ==
    /\ UNCHANGED notOpVars
    /\ OpCall("setMultipleAttributes",
              [attributes |-> <<[path |-> OnOffPath, value |-> [bool |-> TRUE]],
                                [path |-> OtherPath, value |-> [bool |-> FALSE]]>>])
    /\ WriteCall

\* The end of set after setMultipleAttributes returned response (lines 156-161).
SetResult(response) ==
    IF Len(response) # 0 /\ response[1].status # Undefined /\ response[1].status # Success
      THEN [error |-> "StatusResponseError", status |-> response[1].status]
      ELSE Returned(Undefined)

\* What the operation settles with when sendWriteCommand resolved with response.
WriteResult(kind, response) ==
    IF response = Undefined THEN Thrown("No response received")
    ELSE IF kind = "set" THEN SetResult(AttributeStatuses(response.writeResponses))
    ELSE Returned(AttributeStatuses(response.writeResponses))

\* The same step with a successful set storing the written value in the cache.
OpSendWriteCommand_Caching ==
    /\ UNCHANGED <<paseVars, caseVars, peerMaxChunks, subscriptionListeners, acceptedValues,
                   recvPc, recvMessenger, recvDataReport, recvListener, recvSent,
                   recvInvoked, recvResult, recvSubscribed, subPc, subMessenger,
                   subListener, subResponse, subResult, subReplaced>>
    /\ opPc = "sendWriteCommand"
    /\ \E response \in WriteResponses :
          /\ opReturn' = WriteResult(opKind, response)
          /\ subscribedLocalValues' =
                IF opKind = "set" /\ WriteResult(opKind, response) = Returned(Undefined)
                  THEN MapSet(subscribedLocalValues, attributePathToId(opArgs.path),
                              [value |-> opArgs.value, version |-> 0])
                  ELSE subscribedLocalValues
    /\ opMessenger' = "closed"
    /\ opPc' = "done"
    /\ UNCHANGED <<opKind, opArgs, opSent, opResponse, opChunks, opResult>>

\* await messenger.sendWriteCommand(...) settles; the finally of withMessenger
\* closes the messenger; set goes on with the returned list.
OpSendWriteCommand ==
    /\ UNCHANGED notOpVars
    /\ opPc = "sendWriteCommand"
    /\ \/ \E response \in WriteResponses : opReturn' = WriteResult(opKind, response)
       \/ opReturn' = Thrown("TransportError")
    /\ opMessenger' = "closed"
    /\ opPc' = "done"
    /\ UNCHANGED <<opKind, opArgs, opSent, opResponse, opChunks, opResult>>

(***************************************************************************)
(* Interaction client: invoke                                              *)
(***************************************************************************)
\* Longest responses list of an InvokeResponse.
MaxInvokeResponses == 2

\* Response schemas of a command: TlvNoResponse and another one.
TlvNoResponse == [schema |-> "TlvNoResponse"]
TlvOtherResponse == [schema |-> "TlvOtherResponse"]
\* responseSchema.decodeTlv(payload)
decodeTlv(schema, payload) == [decodedBy |-> schema, tlv |-> payload]

\* The entries an InvokeResponse may carry: {response?, result?}.
InvokeResponseEntries ==
    {[response |-> rsp, result |-> res] :
        rsp \in {Undefined, [response |-> [tlv |-> "payload"]]},
        res \in {Undefined, [result |-> [code |-> Success]],
                 [result |-> [code |-> Failure]]}}
\* What sendInvokeCommand may resolve with: an InvokeResponse, or undefined.
InvokeResponses ==
    {[responses |-> rs] : rs \in SeqsUpTo(InvokeResponseEntries, MaxInvokeResponses)}
        \cup {Undefined}

\* invoke(endpointId, clusterId, request, id, requestSchema, _responseId,
\* responseSchema, optional) up to its await: new messenger, call of
\* sendInvokeCommand.
OpInvoke ==
    /\ UNCHANGED notOpVars
    /\ \E responseSchema \in {TlvNoResponse, TlvOtherResponse}, optional \in BOOLEAN :
          OpCall("invoke", [responseSchema |-> responseSchema, optional |-> optional])
    /\ opMessenger' = "open"
    /\ opSent' = <<"InvokeRequest">>
    /\ opReturn' = Undefined
    /\ opPc' = "sendInvokeCommand"

\* The same decision looking at the response of the first entry before its result.
InvokeResult_ResponseFirst(args, invokeResponse) ==
    IF invokeResponse = Undefined THEN Thrown("No response received")
    ELSE IF Len(invokeResponse.responses) = 0 THEN Thrown("No response received")
    ELSE LET response == invokeResponse.responses[1].response
             result == invokeResponse.responses[1].result
         IN  IF response # Undefined
               THEN Returned(decodeTlv(args.responseSchema, response.response))
             ELSE IF result # Undefined
               THEN IF result.result.code # Success
                      THEN Thrown("Received non-success result")
                    ELSE IF args.responseSchema # TlvNoResponse
                      THEN Thrown("A response was expected for this command")
                    ELSE Returned(Undefined)
             ELSE IF args.optional
               THEN Returned(Undefined)
             ELSE Thrown("Received invoke response with no result nor response")

\* Lines 273-287: what invoke settles with when sendInvokeCommand resolved with
\* invokeResponse.
InvokeResult(args, invokeResponse) ==
    IF invokeResponse = Undefined THEN Thrown("No response received")
    ELSE IF Len(invokeResponse.responses) = 0 THEN Thrown("No response received")
    ELSE LET response == invokeResponse.responses[1].response
             result == invokeResponse.responses[1].result
         IN  IF result # Undefined
               THEN IF result.result.code # Success
                      THEN Thrown("Received non-success result")
                    ELSE IF args.responseSchema # TlvNoResponse
                      THEN Thrown("A response was expected for this command")
                    ELSE Returned(Undefined)
             ELSE IF response # Undefined
               THEN Returned(decodeTlv(args.responseSchema, response.response))
             ELSE IF args.optional
               THEN Returned(Undefined)
             ELSE Thrown("Received invoke response with no result nor response")

\* await messenger.sendInvokeCommand(...) settles; the finally of withMessenger
\* closes the messenger.
OpSendInvokeCommand ==
    /\ UNCHANGED notOpVars
    /\ opPc = "sendInvokeCommand"
    /\ \/ \E invokeResponse \in InvokeResponses :
             opReturn' = InvokeResult(opArgs, invokeResponse)
       \/ opReturn' = Thrown("TransportError")
    /\ opMessenger' = "closed"
    /\ opPc' = "done"
    /\ UNCHANGED <<opKind, opArgs, opSent, opResponse, opChunks, opResult>>

(***************************************************************************)
(* Properties                                                              *)
(***************************************************************************)
\* Whether a occurs in log, and whether a occurs in it before b.
Occurs(log, a) == \E i \in DOMAIN log : log[i] = a
Before(log, a, b) == \E i, j \in DOMAIN log : i < j /\ log[i] = a /\ log[j] = b
Kinds(sent) == {sent[i].kind : i \in DOMAIN sent}

\* The session of the current pair call, if it was created.
PaseSessionOfCall == {s \in paseSessions : s.sessionId = paseSessionId}

\* C1: pair() creates the secure session only after, in this order, the
\* PbkdfParamRequest was sent, a PbkdfParamResponse with pbkdfParameters was
\* received, Pake1 was sent, a Pake2 whose verifier equals the locally computed
\* hBX was received, Pake3 was sent and waitForSuccess completed; a pair call
\* in which a step failed has no session.
C1_PaseSessionOnlyAfterKeyConfirmation ==
    /\ PaseSessionOfCall # {} =>
          /\ paseLog = <<"sendPbkdfParamRequest", "readPbkdfParamResponse",
                         "sendPasePake1", "readPasePake2", "sendPasePake3",
                         "waitForSuccess", "createSecureSession">>
          /\ pasePbkdfParameters # Undefined
          /\ paseVerifier = PaseSecrets.hBX
          /\ paseResult = "session"
    /\ pasePc = "failed" => PaseSessionOfCall = {}
    /\ \A s \in paseSessions : s.sessionId \in 1..paseSessionId

C1_Witness == pasePc = "done" /\ PaseSessionOfCall # {}

\* C5: every pair call that fails ends with the messenger closed, with no
\* session created and with an error surfaced to the caller; on a verifier
\* mismatch Pake3 is never sent.
C5_FailedPairClosesMessenger ==
    pasePc = "failed" =>
        /\ paseMessenger = "closed"
        /\ PaseSessionOfCall = {}
        /\ paseResult \notin {"pending", "session"}
        /\ paseResult = "Received incorrect key confirmation from the receiver"
              => ~Occurs(paseLog, "sendPasePake3")

\* Whether this handshake took the resume branch / the full branch (after Sigma1
\* was read), as its steps, its position and its error show.
CaseInResumeBranch ==
    Occurs(caseLog, "decryptResumeMic") \/ caseError = [error |-> "decrypt resumeMic"]
CaseInFullBranch ==
    \/ casePc = "sendSigma2"
    \/ Occurs(caseLog, "sendSigma2")
    \/ caseError \in {[error |-> "Fabric cannot be found from destinationId"],
                      [error |-> "sendSigma2"]}

\* C2: handleSigma1 creates the secure session only after the verification of
\* its branch succeeded: in the full branch after Sigma3 was received, TBE3
\* decrypted, the credentials verified and the peer's signature over the data
\* with the roles swapped verified; in the resume branch after the peer's
\* resumeMic decrypted under the key derived from the record's shared secret.
\* A handshake in which one of these checks failed has no session.
C2_CaseSessionOnlyAfterVerification ==
    /\ \A s \in CaseSecureSession :
          IF s.isResumption
            THEN /\ Before(caseLog, "decryptResumeMic", "createSecureSession")
                 /\ ~Occurs(caseLog, "readSigma3")
                 /\ CanDecrypt(PeerResumeKey(s.sharedSecret, caseSigma1),
                               caseSigma1.resumeMic, RESUME1_MIC_NONCE)
                 /\ s.sharedSecret = caseRecords[caseResumptionRecord.ref].sharedSecret
            ELSE /\ Before(caseLog, "readSigma3", "decryptTBE3")
                 /\ Before(caseLog, "decryptTBE3", "verifyCredentials")
                 /\ Before(caseLog, "verifyCredentials", "verifySpki")
                 /\ Before(caseLog, "verifySpki", "createSecureSession")
                 /\ CanDecrypt(Sigma3Key(s.sharedSecret, caseSessionId, caseSigma1),
                               caseSigma3.encrypted, TBE_DATA3_NONCE)
                 /\ VerifiesCredentials(ServerFabric, PeerNewOpCert)
                 /\ caseSigma3.encrypted.data.signature =
                        Sign(PeerNewOpCert.publicKey,
                             TlvSignedData(PeerNewOpCert, caseSigma1.ecdhPublicKey,
                                 ecdhGeneratePublicKeyAndSecret(caseSessionId,
                                     caseSigma1.ecdhPublicKey).publicKey))
    /\ caseError \in {[error |-> e] : e \in {"readSigma1", "decrypt resumeMic",
                          "Fabric cannot be found from destinationId", "sendSigma2",
                          "readSigma3", "decrypt TBE3", "verifyCredentials", "verifySpki"}}
          => CaseSecureSession = {}

C2_Witness ==
    \E s, t \in caseSessions : s.isResumption /\ ~t.isResumption

\* C3: after a CASE handshake that ended in failure at any step, no secure
\* session created by that handshake exists: it was never created or it was
\* destroyed.
C3_FailedCaseHandshakeLeavesNoSession ==
    (casePc = "done" /\ caseError # Undefined) =>
        \A s \in CaseSecureSession : s.destroyed

\* C4: in a resume handshake the record carries the newly issued resumptionId
\* exactly when the client confirmed success: after waitForSuccess completed the
\* record holds the id sent in Sigma2Resume and was saved; after Sigma2Resume
\* was sent and waitForSuccess failed the record still holds the prior id and
\* saveResumptionRecord was not called.
C4_ResumptionIdReplacedExactlyOnSuccess ==
    /\ (CaseInResumeBranch /\ Occurs(caseLog, "waitForSuccess")) =>
          /\ caseRecords[caseResumptionRecord.ref].resumptionId = caseSent[1].resumptionId
          /\ Occurs(caseLog, "saveResumptionRecord")
          /\ caseSaved[Len(caseSaved)] = caseRecords[caseResumptionRecord.ref]
    /\ caseError = [error |-> "waitForSuccess"] =>
          /\ caseRecords[caseResumptionRecord.ref].resumptionId = caseSigma1.resumptionId
          /\ ~Occurs(caseLog, "saveResumptionRecord")

\* C6: every handshake handled by onNewExchange ends with its messenger closed.
C6_CaseMessengerClosedOnEveryPath ==
    casePc = "done" => caseMessenger = "closed"

\* C7: the resume branch is taken if and only if Sigma1 carries both
\* resumptionId and resumeMic and findResumptionRecordById finds a record; a
\* handshake is in one branch only and sends at most one of Sigma2Resume and
\* Sigma2; a resumeMic that does not decrypt fails the handshake, which then
\* sends neither of them and creates no session.
C7_BranchState ==
    /\ caseSigma1 # Undefined => (CaseInResumeBranch <=> ~CaseInFullBranch)
    /\ ~({"Sigma2", "Sigma2Resume"} \subseteq Kinds(caseSent))
    /\ CaseInResumeBranch => "Sigma2" \notin Kinds(caseSent)
    /\ CaseInFullBranch => "Sigma2Resume" \notin Kinds(caseSent)
    /\ caseError = [error |-> "decrypt resumeMic"] =>
          /\ casePc \in {"catch", "done"}
          /\ Kinds(caseSent) \subseteq {"Error"}
          /\ CaseSecureSession = {}
          /\ ~CaseInFullBranch
C7_BranchChoice ==
    (caseSigma1 = Undefined /\ caseSigma1' # Undefined) =>
        (CaseInResumeBranch' <=>
            /\ caseSigma1'.resumptionId # Undefined
            /\ caseSigma1'.resumeMic # Undefined
            /\ \E i \in DOMAIN caseRecords :
                  caseRecords[i].resumptionId = caseSigma1'.resumptionId)
C7_ResumeBranchIffRecordFound == []C7_BranchState /\ [][C7_BranchChoice]_vars

C7_Witness ==
    casePc = "done" /\ caseError = [error |-> "decrypt resumeMic"]

\* C8: whenever a step of handleSigma1 raises, onNewExchange calls sendError on
\* the exchange: the handshake ends with that call, a sent Error status is the
\* last message of the exchange, and from the raise on nothing but the Error
\* status is sent.
C8_ErrorState ==
    /\ casePc = "catch" => caseError # Undefined
    /\ (casePc = "done" /\ caseError # Undefined) =>
          /\ caseLog[Len(caseLog)] \in {"sendError", "sendError rejected"}
          /\ caseLog[Len(caseLog)] = "sendError" =>
                /\ caseSent # <<>>
                /\ caseSent[Len(caseSent)].kind = "Error"
          /\ \A i \in DOMAIN caseSent : caseSent[i].kind = "Error" => i = Len(caseSent)
C8_AfterRaise ==
    (caseError # Undefined /\ caseSessionId' = caseSessionId) =>
        \/ caseSent' = caseSent
        \/ casePc = "catch" /\ caseSent' = Append(caseSent, CaseMessage("Error", Undefined))
C8_ErrorStatusOnEveryRaise == []C8_ErrorState /\ [][C8_AfterRaise]_vars

C8_Witness ==
    /\ casePc = "done"
    /\ caseError = [error |-> "verifySpki"]
    /\ Kinds(caseSent) = {"Sigma2", "Error"}

\* C9: in a full handshake a resumption record is saved only after Sigma3 was
\* verified, the session was created and the Success status was sent; the saved
\* record holds the resumptionId that was put into Sigma2 and the ECDH secret
\* of the session. A full handshake that fails saves no record.
C9_Save ==
    (caseSaved' # caseSaved /\ ~CaseInResumeBranch) =>
        /\ caseError' = Undefined
        /\ casePc' = "done"
        /\ caseLog' = <<"readSigma1", "sendSigma2", "readSigma3", "decryptTBE3",
                        "verifyCredentials", "verifySpki", "createSecureSession",
                        "sendSuccess", "close", "saveResumptionRecord">>
        /\ caseSent' = <<CaseMessage("Sigma2", caseSaved'[Len(caseSaved')].resumptionId),
                         CaseMessage("Success", Undefined)>>
        /\ caseSaved' = Append(caseSaved, caseSaved'[Len(caseSaved')])
        /\ \E s \in CaseSecureSession :
              /\ ~s.destroyed
              /\ s.sharedSecret = caseSaved'[Len(caseSaved')].sharedSecret
              /\ s.sharedSecret = ecdhGeneratePublicKeyAndSecret(caseSessionId,
                                      caseSigma1.ecdhPublicKey).sharedSecret
C9_FullHandshakeSavesRecordLast == [][C9_Save]_vars

C9_Witness ==
    /\ casePc = "done"
    /\ caseError = Undefined
    /\ Occurs(caseLog, "sendSuccess")
    /\ caseSaved # <<>>

\* C10: for every DataReport read by SubscriptionClient.onNewExchange: when its
\* subscriptionId is absent or has no registered listener, the receiver sends
\* InvalidSubscription, raises an error and invokes no listener; otherwise it
\* sends Success and then invokes the listener registered for that
\* subscriptionId, once, with the report it read. No listener is invoked
\* unless the Success status for its report was sent.
C10_State ==
    /\ Len(recvInvoked) <= 1
    /\ recvInvoked # <<>> =>
          /\ recvSent = <<"Success">>
          /\ recvListener # Undefined
          /\ recvInvoked = <<[listener |-> recvListener, dataReport |-> recvDataReport]>>
    /\ (recvPc = "done" /\ recvDataReport # Undefined) =>
          IF recvListener = Undefined
            THEN /\ recvInvoked = <<>>
                 /\ recvResult \in {"Invalid Data report without Subscription ID",
                                    "Unknown subscription ID", "TransportError"}
                 /\ recvResult # "TransportError" => recvSent = <<"InvalidSubscription">>
                 /\ recvResult = "TransportError" => recvSent = <<>>
            ELSE /\ recvResult # "TransportError" =>
                        /\ recvSent = <<"Success">>
                        /\ Len(recvInvoked) = 1
                 /\ recvResult = "TransportError" => (recvSent = <<>> /\ recvInvoked = <<>>)
C10_Lookup ==
    (recvDataReport = Undefined /\ recvDataReport' # Undefined) =>
        /\ recvSent' = <<>> /\ recvInvoked' = <<>>
        /\ recvListener' =
              IF /\ recvDataReport'.subscriptionId # Undefined
                 /\ recvDataReport'.subscriptionId \in DOMAIN subscriptionListeners
                THEN subscriptionListeners[recvDataReport'.subscriptionId]
                ELSE Undefined
C10_ReportDispatch == []C10_State /\ [][C10_Lookup]_vars

C10_Witness ==
    /\ recvPc = "done"
    /\ recvSent = <<"Success">>
    /\ Len(recvInvoked) = 1
    /\ recvInvoked[1].listener = subscriptionListeners[recvDataReport.subscriptionId]
    /\ "values" \in DOMAIN recvInvoked[1].dataReport
    /\ Len(recvInvoked[1].dataReport.values) = 2

\* C11: an exception a subscription listener raises while the receiver
\* dispatches a report is caught inside the receiver: every onNewExchange that
\* invoked a listener completes without raising, and the receiver is then
\* ready for the next exchange.
C11_ListenerExceptionCaught ==
    (recvPc = "done" /\ recvInvoked # <<>>) => recvResult = "returned"

\* C12: under every interleaving of a subscribe call with inbound exchanges,
\* the listener for a subscription id is registered before the receiver looks
\* that id up for a DataReport the peer sent after its SubscribeResponse for
\* the id: such a report is never answered with InvalidSubscription.
C12_ListenerVisibleBeforeReport ==
    recvPc = "sendInvalidSubscription" =>
        recvDataReport.subscriptionId \notin recvSubscribed

\* A step in which a public operation is called.
OpCalled == opPc \in {"idle", "done"} /\ opVars' # opVars

\* C13: once a subscription listener accepted a report for a path, get on
\* that path returns the value of the report accepted last for it, whatever
\* the data versions, sends no message and creates no messenger.
C13_GetStep ==
    (/\ OpCalled
     /\ opKind' = "get"
     /\ attributePathToId(opArgs'.path) \in DOMAIN acceptedValues) =>
        /\ opReturn' = Returned(acceptedValues[attributePathToId(opArgs'.path)].value)
        /\ opSent' = <<>>
        /\ opMessenger' = "none"
        /\ opPc' = "done"
C13_GetReturnsLastAcceptedValue == [][C13_GetStep]_vars

C13_Witness ==
    /\ opKind = "get" /\ opPc = "done" /\ opSent = <<>> /\ opMessenger = "none"
    /\ opReturn = Returned([bool |-> FALSE])
    /\ acceptedValues[attributePathToId(OnOffPath)] = [value |-> [bool |-> FALSE], version |-> 7]
    /\ subResult = "returned"

\* C14: set, setMultipleAttributes, get, getMultipleAttributes and invoke leave
\* subscribedLocalValues as it is, whether they succeed or fail; and a get on
\* a path for which no report was accepted sends a ReadRequest on a new
\* messenger, whatever operation settled before it.
C14_OpStep ==
    /\ opVars' # opVars => subscribedLocalValues' = subscribedLocalValues
    /\ (/\ OpCalled
        /\ opKind' = "get"
        /\ attributePathToId(opArgs'.path) \notin DOMAIN acceptedValues) =>
           /\ opSent' = <<"ReadRequest">>
           /\ opMessenger' = "open"
           /\ opPc' = "sendReadRequest"
C14_OperationsNeverCache == [][C14_OpStep]_vars

C14_Witness ==
    /\ opKind = "get" /\ opPc = "sendReadRequest" /\ opSent = <<"ReadRequest">>
    /\ opArgs.path = OtherPath
    /\ attributePathToId(OtherPath) \notin DOMAIN subscribedLocalValues
    /\ attributePathToId(OnOffPath) \in DOMAIN subscribedLocalValues
    /\ subResult = "returned"

RECURSIVE ChunkValues(_)
\* The values of the chunks one after the other, in the order of receipt.
ChunkValues(chunks) ==
    IF chunks = <<>> THEN <<>>
    ELSE (IF "values" \in DOMAIN Head(chunks) THEN Head(chunks).values ELSE <<>>)
             \o ChunkValues(Tail(chunks))

\* The DataReports received so far are chunks that all announce a further one.
AllMoreChunked(chunks) == \A i \in 1..Len(chunks) : chunks[i].moreChunkedMessages

\* C15: a read is over only after a DataReport without moreChunkedMessages
\* that follows DataReports which all have it set; nothing is read after that
\* report (the only await left is the sending of its status), and
\* getMultipleAttributes returns the decoding of the chunks' values
\* concatenated in the order of receipt, a chunk without values adding none.
C15_ChunkedReadResult ==
    /\ opPc = "readDataReport" => opChunks # <<>> /\ AllMoreChunked(opChunks)
    /\ (opChunks # <<>> /\ ~opChunks[Len(opChunks)].moreChunkedMessages) =>
          /\ opPc \in {"sendStatus", "done"}
          /\ AllMoreChunked(SubSeq(opChunks, 1, Len(opChunks) - 1))
    /\ (opKind = "getMultipleAttributes" /\ opPc = "done" /\ "value" \in DOMAIN opReturn) =>
          /\ opChunks # <<>>
          /\ ~opChunks[Len(opChunks)].moreChunkedMessages
          /\ opMessenger = "closed"
          /\ opReturn = Returned(normalizeAndDecodeReadAttributeReport(ChunkValues(opChunks)))

C15_Witness ==
    /\ opKind = "getMultipleAttributes" /\ opPc = "done"
    /\ Len(opChunks) = MaxChunks
    /\ "values" \in DOMAIN opChunks[1] /\ "values" \notin DOMAIN opChunks[2]
    /\ "values" \in DOMAIN opChunks[3] /\ opChunks[3].values # opChunks[1].values
    /\ opReturn = Returned(normalizeAndDecodeReadAttributeReport(
                               opChunks[1].values \o opChunks[3].values))

\* The number of Success status messages the read has sent (after its ReadRequest).
StatusSent == Cardinality({i \in 1..Len(opSent) : opSent[i] = "Success"})
\* The number of received DataReports that ask for a response.
NonSuppressed(chunks) ==
    Cardinality({i \in 1..Len(chunks) : ~chunks[i].suppressResponse})

\* C16: a read sends one Success per received DataReport with suppressResponse
\* false and none for one with suppressResponse true, each before it awaits
\* the next chunk: while the next chunk is awaited, and when the read has
\* returned, the Success messages sent are as many as the received reports
\* that asked for one; while a status is being sent it is the one for the
\* report received last, which asked for it.
C16_OneStatusPerChunk ==
    opKind \in {"get", "getMultipleAttributes"} =>
        /\ opPc = "sendReadRequest" => opSent = <<"ReadRequest">>
        /\ opPc = "readDataReport" =>
              /\ StatusSent = NonSuppressed(opChunks)
              /\ AllMoreChunked(opChunks)
        /\ opPc = "sendStatus" =>
              /\ ~opChunks[Len(opChunks)].suppressResponse
              /\ StatusSent = NonSuppressed(opChunks) - 1
        /\ (opPc = "done" /\ "value" \in DOMAIN opReturn /\ opMessenger = "closed") =>
              /\ StatusSent = NonSuppressed(opChunks)
              /\ opChunks[Len(opChunks)].suppressResponse =>
                    StatusSent = NonSuppressed(SubSeq(opChunks, 1, Len(opChunks) - 1))
        /\ opPc = "done" =>
              StatusSent \in {NonSuppressed(opChunks), NonSuppressed(opChunks) - 1}

\* Two chunks asking for a response, then a final one that suppresses it.
C16_Witness ==
    /\ opKind = "getMultipleAttributes" /\ opPc = "done" /\ "value" \in DOMAIN opReturn
    /\ Len(opChunks) = 3
    /\ ~opChunks[1].suppressResponse /\ ~opChunks[2].suppressResponse
    /\ opChunks[3].suppressResponse
    /\ opSent = <<"ReadRequest", "Success", "Success">>

\* What C17 states of a run of the listener of subscribe on a report: the cache
\* it leaves, the calls of the user listener, and whether it raises.
C17_Expected(fn, dataReport, cache) ==
    IF EmptyResult(dataReport) THEN [cache |-> cache, calls |-> <<>>, raised |-> FALSE]
    ELSE LET data == normalizeAndDecodeReadAttributeReport(dataReport.values) IN
         IF Len(data) = 1 /\ data[1].value # Undefined
           THEN LET id == attributePathToId(data[1].path)
                    entry == [value |-> data[1].value, version |-> data[1].version]
                IN  [cache |-> [k \in DOMAIN cache \cup {id} |->
                                   IF k = id THEN entry ELSE cache[k]],
                     calls |-> <<[fn |-> fn, path |-> data[1].path, value |-> data[1].value,
                                  version |-> data[1].version, cached |-> entry]>>,
                     raised |-> FALSE]
           ELSE [cache |-> cache, calls |-> <<>>, raised |-> TRUE]

\* Whichever report the receiver is about to read, the listener of subscribe
\* would do so on it with the cache as it is.
C17_Listener ==
    recvPc = "readDataReport" =>
      \A fn \in UserListeners, dataReport \in DataReports :
        LET ran == SingleListenerRun(fn, dataReport, subscribedLocalValues)
            expected == C17_Expected(fn, dataReport, subscribedLocalValues)
        IN  /\ ran.cache = expected.cache
            /\ ran.calls = expected.calls
            /\ (ran.error # Undefined) = expected.raised
\* The receiver hands a report to the listener of a subscribe.
C17_ReceiverStep ==
    (recvPc = "sendSuccess" /\ recvInvoked' # recvInvoked /\ recvListener.kind = "single") =>
        LET expected == C17_Expected(recvListener.fn, recvDataReport, subscribedLocalValues)
        IN  /\ subscribedLocalValues' = expected.cache
            /\ acceptedValues' = Delivered(acceptedValues, expected.calls)
            /\ (recvResult' # "returned") = expected.raised
\* subscribe got its response: the step that settles it has processed the
\* initial report.
C17_InitialStep ==
    (/\ subPc = "subscribeResponse" /\ subPc' = "done"
     /\ subListener.kind = "single" /\ subResult' # "TransportError") =>
        /\ subResponse \in DOMAIN subscriptionListeners'
        /\ \E dataReport \in ReportsOf(subResponse) :
              LET expected == C17_Expected(subListener.fn, dataReport, subscribedLocalValues)
              IN  /\ subscribedLocalValues' = expected.cache
                  /\ acceptedValues' = Delivered(acceptedValues, expected.calls)
                  /\ (subResult' # "returned") = expected.raised

\* C17: the listener of a single-attribute subscribe accepts a non-empty
\* report only if it decodes to exactly one entry with a defined value: it
\* then updates the cache entry of that entry's path and afterwards calls the
\* user listener once with the value and version; a report decoding to more
\* than one entry, or to an entry with an undefined value, makes it raise with
\* the cache unchanged and the user listener not called. Reports the receiver
\* dispatches and the initial report of subscribe, before subscribe settles,
\* are processed this way.
C17_SingleSubscriptionReports ==
    []C17_Listener /\ [][C17_ReceiverStep /\ C17_InitialStep]_vars

\* The receiver handed a report of two entries to the listener of a subscribe
\* that had accepted a report before.
C17_Witness ==
    /\ recvPc = "done" /\ Len(recvInvoked) = 1
    /\ recvInvoked[1].listener.kind = "single"
    /\ "values" \in DOMAIN recvInvoked[1].dataReport
    /\ Len(normalizeAndDecodeReadAttributeReport(recvInvoked[1].dataReport.values)) = 2
    /\ recvResult = "Unexpected response with more then one attribute"
    /\ subscribedLocalValues = acceptedValues
    /\ attributePathToId(OnOffPath) \in DOMAIN subscribedLocalValues
    /\ DOMAIN subscriptionListeners = {[subscriptionId |-> 1]}

\* A subscribe or subscribeMultipleAttributes call registers its listener.
C18_Registered ==
    subPc = "subscribeResponse" /\ subPc' = "done" /\ subResult' # "TransportError"
\* The registration puts the listener of the call under the subscriptionId of
\* the response, in place of the one registered there, and touches no other id;
\* nothing else changes subscriptionListeners.
C18_RegisterStep ==
    IF C18_Registered
      THEN /\ DOMAIN subscriptionListeners' = DOMAIN subscriptionListeners \cup {subResponse}
           /\ subscriptionListeners'[subResponse] = subListener
           /\ \A id \in DOMAIN subscriptionListeners \ {subResponse} :
                  subscriptionListeners'[id] = subscriptionListeners[id]
      ELSE subscriptionListeners' = subscriptionListeners
\* A report read from now on finds the listener registered last under its id,
\* and that listener and no other is invoked with it.
C18_DispatchStep ==
    /\ (recvPc = "readDataReport" /\ recvPc' = "sendSuccess") =>
          recvListener' = subscriptionListeners[recvDataReport'.subscriptionId]
    /\ (recvInvoked' # recvInvoked /\ recvInvoked' # <<>>) =>
          /\ recvListener' = recvListener
          /\ recvInvoked' = <<[listener |-> recvListener, dataReport |-> recvDataReport]>>

\* C18: subscriptionListeners holds one listener per subscription id; a
\* subscribe whose response carries an id that is already registered replaces
\* the listener registered under it, and every report the receiver reads
\* after that is handed to the listener of the most recent subscribe only.
C18_LastListenerOnly == [][C18_RegisterStep /\ C18_DispatchStep]_vars

\* A subscribeMultipleAttributes call replaced the listener of a subscribe
\* under subscription id 1, and the receiver handed a report with that id to
\* the new listener.
C18_Witness ==
    /\ subPc = "done" /\ subReplaced = SubscriptionListener("single", [fn |-> "onChange"])
    /\ DOMAIN subscriptionListeners = {[subscriptionId |-> 1]}
    /\ subscriptionListeners[[subscriptionId |-> 1]].kind = "multi"
    /\ recvPc = "done" /\ Len(recvInvoked) = 1
    /\ recvInvoked[1].dataReport.subscriptionId = [subscriptionId |-> 1]
    /\ recvInvoked[1].listener.kind = "multi"

\* The effective status of a write-response entry: its status if present, else
\* its clusterStatus if present, else Failure.
C19_EffectiveStatus(entry) ==
    IF entry.status.status # Undefined THEN entry.status.status
    ELSE IF entry.status.clusterStatus # Undefined THEN entry.status.clusterStatus
    ELSE Failure
\* The entries whose effective status is not Success, in response order.
C19_Failed(writeResponses) ==
    LET IsFailed(entry) == C19_EffectiveStatus(entry) # Success
        failed == SelectSeq(writeResponses, IsFailed)
    IN  [i \in 1..Len(failed) |->
            [path |-> failed[i].path, status |-> C19_EffectiveStatus(failed[i])]]
\* What C19 states the operation settles with for a response.
C19_Settles(kind, response, return) ==
    IF kind = "setMultipleAttributes"
      THEN return = Returned(C19_Failed(response.writeResponses))
      ELSE IF C19_Failed(response.writeResponses) # <<>>
             THEN "error" \in DOMAIN return /\ return.error = "StatusResponseError"
             ELSE return = Returned(Undefined)
\* Whichever WriteResponse arrives while the write is awaited.
C19_Write ==
    opPc = "sendWriteCommand" =>
        \A response \in WriteResponses \ {Undefined} :
            C19_Settles(opKind, response, WriteResult(opKind, response))
\* The step in which the awaited write settles with a response.
C19_WriteStep ==
    (/\ opPc = "sendWriteCommand" /\ opPc' = "done"
     /\ opReturn' \notin {Thrown("TransportError"), Thrown("No response received")}) =>
        \E response \in WriteResponses \ {Undefined} :
            C19_Settles(opKind, response, opReturn')

\* C19: setMultipleAttributes returns exactly the write-response entries whose
\* effective status (status, else clusterStatus, else Failure) is not Success,
\* in response order, hence the empty list when every entry is Success; set
\* raises StatusResponseError exactly when that list is not empty.
C19_WriteFailuresReturned == []C19_Write /\ [][C19_WriteStep]_vars

C19_Witness ==
    /\ opKind = "setMultipleAttributes" /\ opPc = "done"
    /\ opReturn = Returned(<<[path |-> OnOffPath, status |-> ClusterError],
                             [path |-> OnOffPath, status |-> Failure]>>)

\* The operation failed.
Failed(return) == "error" \in DOMAIN return
\* What C20 states invoke settles with for an InvokeResponse.
C20_Settles(args, invokeResponse, return) ==
    IF invokeResponse = Undefined \/ invokeResponse.responses = <<>> THEN Failed(return)
    ELSE LET first == Head(invokeResponse.responses) IN
         /\ (first.result # Undefined /\ first.result.result.code # Success) => Failed(return)
         /\ (first.result # Undefined /\ first.result.result.code = Success) =>
                IF args.responseSchema = TlvNoResponse
                  THEN return = Returned(Undefined)
                  ELSE Failed(return)
         /\ (first.result = Undefined /\ first.response # Undefined) =>
                return = Returned(decodeTlv(args.responseSchema, first.response.response))
         /\ (first.result = Undefined /\ first.response = Undefined) =>
                IF args.optional THEN return = Returned(Undefined) ELSE Failed(return)
\* Whichever InvokeResponse arrives while the invoke is awaited.
C20_Invoke ==
    opPc = "sendInvokeCommand" =>
        \A invokeResponse \in InvokeResponses :
            C20_Settles(opArgs, invokeResponse, InvokeResult(opArgs, invokeResponse))
\* The step in which the awaited invoke settles with a response.
C20_InvokeStep ==
    (opPc = "sendInvokeCommand" /\ opPc' = "done" /\ opReturn' # Thrown("TransportError")) =>
        \E invokeResponse \in InvokeResponses :
            C20_Settles(opArgs, invokeResponse, opReturn')

\* C20: invoke decides from the first response entry only. A result that is
\* not Success fails; a Success result returns nothing when the response
\* schema is TlvNoResponse and fails when another schema was expected; without
\* a result, a response is decoded with the response schema and returned;
\* with neither, invoke returns nothing for an optional command and fails
\* otherwise; a missing or empty response list fails.
C20_InvokeOutcome == []C20_Invoke /\ [][C20_InvokeStep]_vars

\* A non-optional command with a response schema got its decoded response.
C20_Witness ==
    /\ opKind = "invoke" /\ opPc = "done"
    /\ opArgs = [responseSchema |-> TlvOtherResponse, optional |-> FALSE]
    /\ opReturn = Returned(decodeTlv(TlvOtherResponse, [tlv |-> "payload"]))

\* The messenger of a call that is over: closed, or none for a get that was
\* served from the cache.
C21_State ==
    /\ opPc = "idle" => opMessenger = "none"
    /\ opPc \notin {"idle", "done"} => opMessenger = "open"
    /\ opPc = "done" =>
          opMessenger = IF opKind = "get" /\ opSent = <<>> THEN "none" ELSE "closed"
    /\ subPc = "idle" => subMessenger = "none"
    /\ subPc \notin {"idle", "done"} => subMessenger = "open"
    /\ subPc = "done" => subMessenger = "closed"
\* A messenger is constructed by the call of an operation, and closed by the
\* step that settles the operation, with a result or with an error.
C21_Step ==
    /\ opMessenger' # opMessenger =>
          \/ OpCalled /\ opMessenger' = "open" /\ opPc' \notin {"idle", "done"}
          \/ OpCalled /\ opMessenger' = "none" /\ opKind' = "get" /\ opSent' = <<>>
          \/ opMessenger = "open" /\ opMessenger' = "closed" /\ opPc' = "done"
    /\ (OpCalled /\ opPc' # "done") => opMessenger' = "open"
    /\ (opPc \notin {"idle", "done"} /\ opPc' = "done") =>
          opMessenger = "open" /\ opMessenger' = "closed" /\ opReturn' # Undefined
    /\ subMessenger' # subMessenger =>
          \/ subPc \in {"idle", "done"} /\ subMessenger' = "open"
          \/ subMessenger = "open" /\ subMessenger' = "closed" /\ subPc' = "done"
    /\ (subPc \notin {"idle", "done"} /\ subPc' = "done") =>
          subMessenger = "open" /\ subMessenger' = "closed" /\ subResult' # "pending"

\* C21: every InteractionClient operation that constructs a messenger closes
\* it once, in the step in which it returns or raises; the operations that
\* run next to each other each have a messenger of their own, and a get
\* served from the cache constructs none.
C21_MessengerClosedOnEveryExit == []C21_State /\ [][C21_Step]_vars

\* A read that raised has closed its messenger while a subscribe is under way
\* with its own.
C21_Witness ==
    /\ opKind = "getMultipleAttributes" /\ opPc = "done"
    /\ opReturn = Thrown("TransportError") /\ opMessenger = "closed"
    /\ Len(opChunks) = 1
    /\ subPc = "subscribeResponse" /\ subMessenger = "open"

\* C22: the subscription receiver closes the incoming messenger it constructed
\* for the exchange on every exit path of onNewExchange: after a dispatched
\* report, after replying InvalidSubscription, and when reading the DataReport
\* fails.
C22_IncomingMessengerClosed ==
    recvPc = "done" => recvMessenger = "closed"

\* The errors a subscription listener raises.
ListenerErrors ==
    {"Subscription result reporting undefined/no value not specified",
     "Unexpected response with more then one attribute",
     "Subscription result reporting undefined value not specified"}

\* The step that settles a subscribe call whose response arrived: the listener
\* of the call is registered under the subscriptionId of the response, also
\* when processing the initial report raises and the call fails.
C23_SettleStep ==
    (subPc = "subscribeResponse" /\ subPc' = "done" /\ subResult' # "TransportError") =>
        /\ subResult' \in ListenerErrors \cup {"returned"}
        /\ subResponse \in DOMAIN subscriptionListeners'
        /\ subscriptionListeners'[subResponse] = subListener
\* A registered subscription id stays registered.
C23_StaysStep ==
    DOMAIN subscriptionListeners \subseteq DOMAIN subscriptionListeners'
\* A DataReport with a registered subscription id is answered with Success and
\* dispatched to the listener registered under the id.
C23_DispatchStep ==
    /\ (/\ recvPc = "readDataReport" /\ recvDataReport' # Undefined
        /\ recvDataReport'.subscriptionId \in DOMAIN subscriptionListeners) =>
           /\ recvPc' = "sendSuccess"
           /\ recvListener' = subscriptionListeners[recvDataReport'.subscriptionId]
    /\ (recvPc = "sendSuccess" /\ recvPc' = "done" /\ recvResult' # "TransportError") =>
           /\ recvSent' = <<"Success">>
           /\ recvInvoked' = <<[listener |-> recvListener, dataReport |-> recvDataReport]>>

\* C23: subscribe and subscribeMultipleAttributes register the listener under
\* the returned subscriptionId before they process the initial report: when
\* that processing raises the call fails with the listener registered, it
\* stays registered, and DataReports with that subscriptionId read afterwards
\* are acknowledged with Success and dispatched to it.
C23_ListenerRegisteredBeforeInitialReport ==
    [][C23_SettleStep /\ C23_StaysStep /\ C23_DispatchStep]_vars

\* The one subscribe call that got a response failed on its initial report,
\* and a report with its subscriptionId was acknowledged and dispatched to
\* its listener.
C23_Witness ==
    /\ subPc = "done" /\ subResult \in ListenerErrors /\ subReplaced = Undefined
    /\ DOMAIN subscriptionListeners = {[subscriptionId |-> 1]}
    /\ recvPc = "done" /\ recvSent = <<"Success">>
    /\ Len(recvInvoked) = 1
    /\ recvInvoked[1].dataReport.subscriptionId = [subscriptionId |-> 1]
    /\ recvInvoked[1].listener = subscriptionListeners[[subscriptionId |-> 1]]

(***************************************************************************)
(* Specifications                                                          *)
(***************************************************************************)
Init == PaseInit /\ CaseInit /\ IcInit /\ OpInit /\ peerMaxChunks = MaxChunks

SpecPase == Init /\ [][PaseNext]_vars

SpecCase == Init /\ [][CaseNext]_vars

SpecInteraction == Init /\ [][IcNext]_vars

\* The operations of the client next to its subscribe calls.
ClientNext ==
    \/ IcSubscribe
    \/ IcSubscribeMultipleAttributes
    \/ PeerSubscribeResponse
    \/ IcSendSubscribeRequest
    \/ OpGet
    \/ OpGetMultipleAttributes
    \/ OpSendReadRequest
    \/ OpSendStatus
    \/ OpReadDataReport
    \/ OpSet
    \/ OpSetMultipleAttributes
    \/ OpSendWriteCommand
    \/ OpInvoke
    \/ OpSendInvokeCommand

\* The client with a peer that answers a read with at most two DataReports.
InitClient == PaseInit /\ CaseInit /\ IcInit /\ OpInit /\ peerMaxChunks = 2

SpecClient == InitClient /\ [][ClientNext]_vars

\* Reads alone.
ReadNext ==
    \/ OpGet
    \/ OpGetMultipleAttributes
    \/ OpSendReadRequest
    \/ OpSendStatus
    \/ OpReadDataReport

SpecRead == Init /\ [][ReadNext]_vars

=============================================================================
